---------------------------- MODULE Spec2Model ----------------------------
(***************************************************************************)
(* Model of sympy/ntheory/residue_ntheory.py: multiplicative order,        *)
(* primitive roots, modular square roots and n-th roots.                   *)
(*                                                                         *)
(* Every public function is a pure function of its arguments; a call is    *)
(* one action that draws the arguments from a bounded set and records the  *)
(* arguments in `call` and the returned value (or raised error) in `ret`.  *)
(* The lazy generator sqrt_mod_iter is a process of its own: IterStart     *)
(* creates it, IterNext consumes one value.                                *)
(***************************************************************************)
EXTENDS Integers, Sequences, FiniteSets

VARIABLES call, ret, it_state, it_rest, it_out, log

vars == <<call, ret, it_state, it_rest, it_out, log>>

(***************************************************************************)
(* Bounds of the model.                                                    *)
(***************************************************************************)
\* largest modulus given to n_order / is_primitive_root / primitive_root
MaxN == 100
\* largest modulus given to sqrt_mod / sqrt_mod_iter
MaxMod == 72
\* largest modulus given to nthroot_mod
MaxRootMod == 45
\* largest exponent given to nthroot_mod
MaxExp == 8
\* number of distinct outcomes of the random nonresidue search that are drawn
MaxRnd == 7

\* moduli of the discrete logarithm calls, all inputs taken
MaxLogMod == 20

\* arguments a taken with the large moduli
MaxLargeArg == 12

\* moduli of the calls of Pollard's rho
MaxRhoMod == 9

\* values of the parameter retries of Pollard's rho
MaxRetries == 2

\* largest modulus given to quadratic_congruence
MaxQuadMod == 12

\* largest modulus given to polynomial_congruence
MaxPolyMod == 5

\* largest number of coefficients of a polynomial
MaxRank == 4

\* largest n given to binomial_mod
MaxBinomN == 24

\* largest modulus given to binomial_mod
MaxBinomK == 36

\* largest number of iterables given to _product
MaxIters == 3
\* largest length of an iterable given to _product
MaxIterLen == 3

\* largest prime power p**k given to _sqrt_mod_prime_power
MaxPowerMod == 81

(***************************************************************************)
(* Returned values: Python's int / bool / list / None / raised ValueError. *)
(***************************************************************************)
RInt(v) == [kind |-> "int", val |-> v, list |-> <<>>]
RBool(b) == [kind |-> "bool", val |-> IF b THEN 1 ELSE 0, list |-> <<>>]
RList(s) == [kind |-> "list", val |-> 0, list |-> s]
RNone == [kind |-> "None", val |-> 0, list |-> <<>>]
RValueError == [kind |-> "ValueError", val |-> 0, list |-> <<>>]
RZeroDivisionError == [kind |-> "ZeroDivisionError", val |-> 0, list |-> <<>>]
\* no result yet: the call is inside a function it has entered
RPending == [kind |-> "pending", val |-> 0, list |-> <<>>]

(***************************************************************************)
(* Python builtins and the integer utility layer (external collaborators). *)
(***************************************************************************)
\* a local variable: v is evaluated once and the body F is evaluated with it
Local(v, F(_)) == CHOOSE y \in {F(x) : x \in {v}} : TRUE

Min(S) == CHOOSE x \in S : \A y \in S : x <= y

Range(s) == {s[i] : i \in DOMAIN s}

\* sorted(S) for a set of integers: the k-th value has k - 1 values below it
SortedSeq(S0) ==
    Local(S0, LAMBDA S :
        [k \in 1..Cardinality(S) |->
            CHOOSE x \in S : Cardinality({y \in S : y < x}) = k - 1])

\* sorted(s) for a list of integers (duplicates are kept, the sort is stable)
Sorted(s0) ==
    Local(s0, LAMBDA s :
        [k \in DOMAIN s |->
            s[CHOOSE i \in DOMAIN s :
                Cardinality({j \in DOMAIN s :
                    s[j] < s[i] \/ (s[j] = s[i] /\ j < i)}) = k - 1]])

\* list(range(start, stop, step)), step > 0
Stepped(start, stop, step) ==
    IF start >= stop THEN <<>>
    ELSE [k \in 1..((stop - start - 1) \div step + 1) |-> start + (k - 1) * step]

RECURSIVE Gcd(_, _)
Gcd(x, y) == IF y = 0 THEN x ELSE Gcd(y, x % y)

RECURSIVE Pow(_, _)
\* b**e, e >= 0
Pow(b, e) == IF e = 0 THEN 1 ELSE b * Pow(b, e - 1)

RECURSIVE ModPow(_, _, _)
\* pow(b, e, m), e >= 0
ModPow(b, e, m) ==
    IF e = 0 THEN 1 % m
    ELSE Local(ModPow(b, e \div 2, m), LAMBDA h :
             IF e % 2 = 0 THEN (h * h) % m
             ELSE (((h * h) % m) * (b % m)) % m)

\* invert(x, m): the inverse of x modulo m (gcd(x, m) = 1)
Invert(x, m) == CHOOSE y \in 0..(m - 1) : (x * y) % m = 1 % m

\* pow(b, -e, m), e >= 0
ModPowNeg(b, e, m) == ModPow(Invert(b % m, m), e, m)

IsPrime(x) == x > 1 /\ \A d \in 2..(x - 1) : d * d > x \/ x % d # 0

RECURSIVE Multiplicity(_, _)
\* multiplicity(p, x): the largest e with p**e dividing x (x # 0)
Multiplicity(p, x) == IF x % p # 0 THEN 0 ELSE 1 + Multiplicity(p, x \div p)

\* trailing(x): number of trailing zero bits
Trailing(x) == IF x = 0 THEN 0 ELSE Multiplicity(2, x)

PrimeDivisors(x) == {p \in 2..x : x % p = 0 /\ IsPrime(p)}

\* factorint(x).items(): the (prime, exponent) pairs, smallest prime first
Factorint(x) ==
    Local(SortedSeq(PrimeDivisors(x)), LAMBDA ps :
        [i \in DOMAIN ps |-> <<ps[i], Multiplicity(ps[i], x)>>])

\* perfect_power(x): (b, e) with b**e = x and e > 1 as large as possible,
\* or False (here <<0, 0>>)
PerfectPower(x) ==
    Local({b \in 2..x : Multiplicity(b, x) >= 2 /\ Pow(b, Multiplicity(b, x)) = x},
          LAMBDA C : IF C = {} THEN <<0, 0>> ELSE <<Min(C), Multiplicity(Min(C), x)>>)

\* legendre(a, p) for an odd prime p
Legendre(a, p) ==
    IF a % p = 0 THEN 0
    ELSE IF \E x \in 1..(p - 1) : (x * x) % p = a % p THEN 1 ELSE -1

RECURSIVE JacobiOver(_, _)
JacobiOver(a, f) ==
    IF f = <<>> THEN 1
    ELSE Local(Legendre(a, Head(f)[1]), LAMBDA l :
             (IF Head(f)[2] % 2 = 0 THEN l * l ELSE l) * JacobiOver(a, Tail(f)))

\* jacobi(a, n) for odd n > 0
Jacobi(a, n) == Local(Factorint(n), LAMBDA f : JacobiOver(a, f))

RECURSIVE SeqProduct(_)
SeqProduct(s) == IF s = <<>> THEN 1 ELSE Head(s) * SeqProduct(Tail(s))

RECURSIVE SeqSum(_)
SeqSum(s) == IF s = <<>> THEN 0 ELSE Head(s) + SeqSum(Tail(s))

\* gf_crt1(M, ZZ) followed by gf_crt2(U, M, p, E, S, ZZ): with p the product of
\* M, E[i] = p // M[i] and S[i] the inverse of E[i] modulo M[i],
\* the sum of E[i]*(U[i]*S[i] % M[i]) reduced modulo p
GfCrt(U, M) ==
    Local(SeqProduct(M), LAMBDA p :
    Local([i \in DOMAIN M |-> p \div M[i]], LAMBDA E :
    Local([i \in DOMAIN M |-> Invert(E[i] % M[i], M[i])], LAMBDA S :
        SeqSum([i \in DOMAIN M |-> E[i] * ((U[i] * S[i]) % M[i])]) % p)))

\* int.bit_length()
RECURSIVE BitLength(_)
BitLength(k) == IF k = 0 THEN 0 ELSE 1 + BitLength(k \div 2)

\* abs
Abs(x) == IF x < 0 THEN -x ELSE x

(***************************************************************************)
(* Group order engine: n_order.                                            *)
(***************************************************************************)
\* factors[p] += k on a dict that keeps insertion order
AddFactor(fs, p, k) ==
    IF \E i \in DOMAIN fs : fs[i][1] = p
    THEN [i \in DOMAIN fs |-> IF fs[i][1] = p THEN <<p, fs[i][2] + k>> ELSE fs[i]]
    ELSE Append(fs, <<p, k>>)

RECURSIVE AddFactors(_, _)
\* for py, ky in factorint(px - 1).items(): factors[py] += ky
AddFactors(fs, items) ==
    IF items = <<>> THEN fs
    ELSE AddFactors(AddFactor(fs, Head(items)[1], Head(items)[2]), Tail(items))

RECURSIVE TotientFactors(_, _)
\* the loop over factorint(n).items() that builds the factorization of totient(n)
TotientFactors(fs, items) ==
    IF items = <<>> THEN fs
    ELSE LET px == Head(items)[1]
             kx == Head(items)[2]
             f1 == IF kx > 1 THEN AddFactor(fs, px, kx - 1) ELSE fs
         IN TotientFactors(AddFactors(f1, Factorint(px - 1)), Tail(items))

RECURSIVE FactorProduct(_)
\* order = product of px**kx
FactorProduct(fs) ==
    IF fs = <<>> THEN 1 ELSE Pow(Head(fs)[1], Head(fs)[2]) * FactorProduct(Tail(fs))

\* faulty variant: the prime is stripped at most once
RECURSIVE StripPrimeOnce(_, _, _, _, _)
StripPrimeOnce(a, n, order, p, e) ==
    IF e > 0 /\ ModPow(a, order \div p, n) = 1 THEN order \div p ELSE order

RECURSIVE StripPrime(_, _, _, _, _)
\* for _ in range(e): if pow(a, order // p, n) == 1: order //= p  else: break
StripPrime(a, n, order, p, e) ==
    IF e = 0 THEN order
    ELSE IF ModPow(a, order \div p, n) = 1 THEN StripPrime(a, n, order \div p, p, e - 1)
    ELSE order

RECURSIVE StripAll(_, _, _, _)
\* for p, e in factors.items(): strip p from order
StripAll(a, n, order, fs) ==
    IF fs = <<>> THEN order
    ELSE StripAll(a, n, StripPrime(a, n, order, Head(fs)[1], Head(fs)[2]), Tail(fs))

\* faulty variant: the test gcd(a, n) != 1 is left out
n_order_unchecked(a0, n) ==
    IF n <= 1 THEN RValueError
    ELSE LET a == a0 % n
             factors == TotientFactors(<<>>, Factorint(n))
         IN IF a = 1 THEN RInt(1)
            ELSE RInt(StripAll(a, n, FactorProduct(factors), factors))

n_order(a0, n) ==
    IF n <= 1 THEN RValueError
    ELSE LET a == a0 % n
             factors == TotientFactors(<<>>, Factorint(n))
         IN IF a = 1 THEN RInt(1)
            ELSE IF Gcd(a, n) # 1 THEN RValueError
            ELSE RInt(StripAll(a, n, FactorProduct(factors), factors))

\* whether n_order(a0, n) has called factorint or pow when it returns or
\* raises: the first such call is factorint(n), after the tests
n_order_work(a0, n) ==
    IF n <= 1 THEN FALSE
    ELSE IF a0 % n = 1 THEN FALSE
    ELSE IF Gcd(a0 % n, n) # 1 THEN FALSE
    ELSE TRUE

(***************************************************************************)
(* Primitive root finder.                                                  *)
(***************************************************************************)
\* the linear search of _primitive_root_prime_iter: the first g in range(2, p)
\* with pow(g, (p - 1) // q, p) != 1 for every prime q dividing p - 1
PrimeRootSearch(p) ==
    LET v == {(p - 1) \div q : q \in PrimeDivisors(p - 1)}
    IN Min({g \in 2..(p - 1) : \A pw \in v : ModPow(g, pw, p) # 1})

\* faulty variant: 2 in place of 3 for p = 7, 17, 31
PrimeRootTableWrong(p) ==
    IF p = 23 THEN 5 ELSE IF p = 7 \/ p % 7 = 3 THEN 2 ELSE 2

\* the tabulated smallest primitive roots of the odd primes 5 <= p < 41
PrimeRootTable(p) ==
    IF p = 23 THEN 5 ELSE IF p = 7 \/ p % 7 = 3 THEN 3 ELSE 2

\* _primitive_root_prime_iter(p) as the list of the values it yields
primitive_root_prime_iter(p) ==
    IF p = 3 THEN <<2>>
    ELSE LET g == IF p < 41 THEN PrimeRootTable(p) ELSE PrimeRootSearch(p)
             ks == SelectSeq(Stepped(3, p, 2), LAMBDA k : Gcd(p - 1, k) = 1)
         IN <<g>> \o [i \in DOMAIN ks |-> ModPow(g, ks[i], p)]

\* t = (g - pow(g, 2 - p, p2)) % p2
ExcludedShift(g, p) ==
    LET p2 == p * p IN (g - ModPowNeg(g, p - 2, p2)) % p2

RECURSIVE Flatten(_)
Flatten(ss0) ==
    Local(ss0, LAMBDA ss : IF ss = <<>> THEN <<>> ELSE Head(ss) \o Flatten(Tail(ss)))

\* for k in range(0, p2, p): if k != t
PowerIterShifts(g, p) ==
    SelectSeq(Stepped(0, p * p, p), LAMBDA k : k # ExcludedShift(g, p))

\* _primitive_root_prime_power_iter(p, e) as the list of the values it yields
primitive_root_prime_power_iter(p, e) ==
    IF e = 1 THEN primitive_root_prime_iter(p)
    ELSE LET gs == primitive_root_prime_iter(p)
             ms == Stepped(0, Pow(p, e), p * p)
             ofG(g) == LET ks == PowerIterShifts(g, p)
                       IN Flatten([i \in DOMAIN ks |->
                                     [j \in DOMAIN ms |-> g + ks[i] + ms[j]]])
         IN Flatten([i \in DOMAIN gs |-> ofG(gs[i])])

\* faulty variant: g is kept even when it is even
OddMemberWrong(g, pe) == g

\* the odd one of g and g + p**e
OddMember(g, pe) == IF g % 2 = 1 THEN g ELSE g + pe

\* _primitive_root_prime_power2_iter(p, e) as the list of the values it yields
primitive_root_prime_power2_iter(p, e) ==
    LET gs == primitive_root_prime_power_iter(p, e)
    IN [i \in DOMAIN gs |-> OddMember(gs[i], Pow(p, e))]

\* faulty variant: the prime q itself is left out of the order test
IsPrimitiveRootCoreNoQ(a, p) ==
    LET q0 == IF p % 2 = 1 THEN p ELSE p \div 2
        m == PerfectPower(q0)
    IN IF p <= 4 THEN a = p - 1
       ELSE IF p % 4 = 0 THEN FALSE
       ELSE IF IsPrime(q0)
            THEN \A prime \in PrimeDivisors(q0 - 1) :
                     ModPow(a, (q0 - 1) \div prime, p) # 1
       ELSE IF m = <<0, 0>> THEN FALSE
       ELSE IF ~IsPrime(m[1]) THEN FALSE
       ELSE LET q == m[1]
                group_order == Pow(q, m[2] - 1) * (q - 1)
            IN \A prime \in PrimeDivisors(q - 1) :
                   ModPow(a, group_order \div prime, p) # 1

\* is_primitive_root after its argument checks (a already reduced modulo p)
IsPrimitiveRootCore(a, p) ==
    LET q0 == IF p % 2 = 1 THEN p ELSE p \div 2
        m == PerfectPower(q0)
    IN IF p <= 4 THEN a = p - 1
       ELSE IF p % 4 = 0 THEN FALSE
       ELSE IF IsPrime(q0)
            THEN \A prime \in PrimeDivisors(q0 - 1) :
                     ModPow(a, (q0 - 1) \div prime, p) # 1
       ELSE IF m = <<0, 0>> THEN FALSE
       ELSE IF ~IsPrime(m[1]) THEN FALSE
       ELSE LET q == m[1]
                group_order == Pow(q, m[2] - 1) * (q - 1)
            IN \A prime \in PrimeDivisors(q - 1) \cup {q} :
                   ModPow(a, group_order \div prime, p) # 1

is_primitive_root(a0, p) ==
    IF p <= 1 THEN RValueError
    ELSE IF Gcd(a0 % p, p) # 1 THEN RValueError
    ELSE RBool(IsPrimitiveRootCore(a0 % p, p))

\* whether is_primitive_root(a0, p) has called factorint, perfect_power or
\* pow when it returns or raises: p <= 4 and p % 4 == 0 return before
is_primitive_root_work(a0, p) ==
    IF p <= 1 THEN FALSE
    ELSE IF Gcd(a0 % p, p) # 1 THEN FALSE
    ELSE IF p <= 4 THEN FALSE
    ELSE IF p % 2 = 0 /\ p % 4 = 0 THEN FALSE
    ELSE TRUE

\* faulty variant: the exponent of 2 is not looked at
TwoFactorsRejectedNoExp(f) == f[1][1] # 2

\* len(f) == 2: 2 not in f or f[2] > 1
TwoFactorsRejected(f) == f[1][1] # 2 \/ f[1][2] > 1

RECURSIVE primitive_root(_, _)
primitive_root(p, smallest) ==
    IF p < 2 THEN RValueError
    ELSE IF p <= 4 THEN RInt(p - 1)
    ELSE IF ~smallest
    THEN LET p_even == p % 2 = 0
             q0 == IF p_even THEN p \div 2 ELSE p
             m == PerfectPower(q0)
         IN IF p_even /\ p % 4 = 0 THEN RNone
            ELSE IF ~IsPrime(q0) /\ m = <<0, 0>> THEN RNone
            ELSE IF ~IsPrime(q0) /\ ~IsPrime(m[1]) THEN RNone
            ELSE LET q == IF IsPrime(q0) THEN q0 ELSE m[1]
                     e == IF IsPrime(q0) THEN 1 ELSE m[2]
                 IN IF p_even
                    THEN RInt(Head(primitive_root_prime_power2_iter(q, e)))
                    ELSE RInt(Head(primitive_root_prime_power_iter(q, e)))
    ELSE LET f == Factorint(p)
         IN IF Len(f) > 2 THEN RNone
            ELSE IF Len(f) = 2
            THEN IF TwoFactorsRejected(f) THEN RNone
                 ELSE \* case p = 2*p1**k: i = 3, 5, ... while the previous i < p
                      LET p1 == f[2][1]
                          found == {i \in 3..(p + 1) :
                                      /\ i % 2 = 1
                                      /\ i % p1 # 0
                                      /\ is_primitive_root(i, p) = RBool(TRUE)}
                      IN IF found # {} THEN RInt(Min(found))
                         ELSE RInt(Head(primitive_root_prime_iter(p)))
            ELSE IF f[1][1] = 2 THEN (IF p = 4 THEN RInt(3) ELSE RNone)
            ELSE LET p1 == f[1][1]
                     n == f[1][2]
                 IN IF n > 1
                    THEN LET g == primitive_root(p1, TRUE).val
                             found == {i \in 2..(g + p1) :
                                         /\ Gcd(i, p) = 1
                                         /\ is_primitive_root(i, p) = RBool(TRUE)}
                         IN IF is_primitive_root(g, p1 * p1) = RBool(TRUE) THEN RInt(g)
                            ELSE IF found # {} THEN RInt(Min(found))
                            ELSE RInt(Head(primitive_root_prime_iter(p)))
                    ELSE RInt(Head(primitive_root_prime_iter(p)))

\* whether primitive_root(p, smallest) has called factorint, perfect_power or
\* pow when it returns or raises
primitive_root_work(p, smallest) ==
    IF p < 2 THEN FALSE
    ELSE IF p <= 4 THEN FALSE
    ELSE IF ~smallest /\ p % 2 = 0 /\ p % 4 = 0 THEN FALSE
    ELSE TRUE

(***************************************************************************)
(* Modular square root engine.                                             *)
(***************************************************************************)
NonResidues(p) ==
    Local(Factorint(p), LAMBDA f : {d \in 2..(p - 1) : JacobiOver(d, f) = -1})

\* the d with which the random search "while 1: d = randint(2, p - 1)" ends:
\* any quadratic nonresidue of p, selected by the draw rnd
TonelliDraw(p, rnd) ==
    Local(SortedSeq(NonResidues(p)), LAMBDA ds : ds[(rnd % Len(ds)) + 1])

RECURSIVE TonelliLoop(_, _, _, _, _, _)
\* faulty variant: the bit 2**i is added when the power is 1
TonelliLoopOnOne(A, D, p, s, i, m0) ==
    Local(m0, LAMBDA m :
        IF i = s THEN m
        ELSE Local(ModPow((A * ModPow(D, m, p)) % p, Pow(2, s - 1 - i), p), LAMBDA adm :
                 TonelliLoop(A, D, p, s, i + 1,
                             IF adm % p = 1 THEN m + Pow(2, i) ELSE m)))

\* for i in range(s): the bit-by-bit correction of the exponent m
TonelliLoop(A, D, p, s, i, m0) ==
    Local(m0, LAMBDA m :
        IF i = s THEN m
        ELSE Local(ModPow((A * ModPow(D, m, p)) % p, Pow(2, s - 1 - i), p), LAMBDA adm :
                 TonelliLoop(A, D, p, s, i + 1,
                             IF adm % p = p - 1 THEN m + Pow(2, i) ELSE m)))

\* _sqrt_mod_tonelli_shanks: the m the correction loop ends with
TonelliCorrection(a, p, d) ==
    Local(Trailing(p - 1), LAMBDA s :
    Local(p \div Pow(2, s), LAMBDA t :
        TonelliLoop(ModPow(a, t, p), ModPow(d, t, p), p, s, 0, 0)))

\* _sqrt_mod_tonelli_shanks(a, p) when the search ended with the nonresidue d
sqrt_mod_tonelli_shanks(a, p, d) ==
    Local(Trailing(p - 1), LAMBDA s :
    Local(p \div Pow(2, s), LAMBDA t :
    Local(ModPow(a, t, p), LAMBDA A :
    Local(ModPow(d, t, p), LAMBDA D :
    Local(TonelliLoop(A, D, p, s, 0, 0), LAMBDA m :
        (ModPow(a, (t + 1) \div 2, p) * ModPow(D, m \div 2, p)) % p)))))

RECURSIVE Lift2(_, _, _, _)
\* faulty variant: the bit nx is added in place of the bit nx - 1
Lift2HighBit(r0, a, nx, k) ==
    Local(r0, LAMBDA r :
        IF nx >= k THEN r
        ELSE Lift2(IF ((r * r - a) \div Pow(2, nx)) % 2 = 1 THEN r + Pow(2, nx) ELSE r,
                   a, nx + 1, k))

\* for nx in range(3, k): if ((r**2 - a) >> nx) % 2: r += 1 << (nx - 1)
Lift2(r0, a, nx, k) ==
    Local(r0, LAMBDA r :
        IF nx >= k THEN r
        ELSE Lift2(IF ((r * r - a) \div Pow(2, nx)) % 2 = 1 THEN r + Pow(2, nx - 1) ELSE r,
                   a, nx + 1, k))

\* faulty variant: the inverse of res is taken in place of that of 2*res
NewtonStepSingle(res, a, px) == (res - (res * res - a) * Invert(res % px, px)) % px

\* frinv = invert(2*res, px); res = (res - (res**2 - a)*frinv) % px
NewtonStep(res, a, px) == (res - (res * res - a) * Invert((2 * res) % px, px)) % px

RECURSIVE NewtonRounds(_, _, _, _)
\* for _ in range(k.bit_length() - 1): px = px**2; Newton step modulo px
NewtonRounds(res0, a, px0, rounds) ==
    Local(res0, LAMBDA res : Local(px0, LAMBDA px :
        IF rounds = 0 THEN res
        ELSE NewtonRounds(NewtonStep(res, a, px * px), a, px * px, rounds - 1)))

\* the root modulo the odd prime p of a with jacobi(a, p) = 1
BaseRoot(a, p, rnd) ==
    IF p % 4 = 3 THEN ModPow(a, (p + 1) \div 4, p)
    ELSE IF p % 8 = 5
    THEN Local(ModPow(a, (p + 3) \div 8, p), LAMBDA res :
             IF ModPow(res, 2, p) # a % p
             THEN (res * ModPow(2, (p - 1) \div 4, p)) % p
             ELSE res)
    ELSE sqrt_mod_tonelli_shanks(a, p, TonelliDraw(p, rnd))

\* the Hensel lifting of the root res0 modulo p to a root modulo pk = p**k
HenselLift(res0, a, p, k, pk) ==
    IF k > 1
    THEN Local(NewtonRounds(res0, a, p, BitLength(k) - 1), LAMBDA res1 :
             IF Pow(2, BitLength(k) - 1) # k THEN NewtonStep(res1, a, pk) ELSE res1)
    ELSE res0

\* faulty variant: the two roots are returned in the order res, pk - res
RootPairUnsorted(res, pk) == <<res, pk - res>>

\* return sorted([res, pk - res])
RootPair(res, pk) == Sorted(<<res, pk - res>>)

\* _sqrt_mod_prime_power(a, p, k); None is the empty list
sqrt_mod_prime_power(a0, p, k, rnd) ==
    Local(Pow(p, k), LAMBDA pk : Local(a0 % pk, LAMBDA a :
        IF p = 2
        THEN IF a % 8 # 1 THEN <<>>
             ELSE IF k <= 3 THEN Stepped(1, pk, 2)
             ELSE Local(Lift2(1, a, 3, k), LAMBDA r : Local(Pow(2, k - 1), LAMBDA h :
                      Sorted(<<r, pk - r, (r + h) % pk, (-(r + h)) % pk>>)))
        ELSE IF Jacobi(a, p) # 1 THEN <<>>
        ELSE Local(HenselLift(BaseRoot(a, p, rnd), a, p, k, pk), LAMBDA res :
                 RootPair(res, pk))))

\* faulty variant: the exponent is rounded down
Sqrt1StepWrong(p, n) == Pow(p, n \div 2)

\* a = 0 (mod p**n): the step p**((n + 1) // 2) of the roots
Sqrt1Step(p, n) == Pow(p, (n + 1) \div 2)

\* the generator (x for rx in res for x in range(rx*p**m, pn, p**(n - m)))
Sqrt1Spread(res, p, n, m, pn) ==
    Flatten([i \in DOMAIN res |-> Stepped(res[i] * Pow(p, m), pn, Pow(p, n - m))])

\* _sqrt_mod1(a, p, n) as the list of the values it returns or generates;
\* None is the empty list
sqrt_mod1(a0, p, n, rnd) ==
    Local(Pow(p, n), LAMBDA pn : Local(a0 % pn, LAMBDA a :
        IF a = 0 THEN Stepped(0, pn, Sqrt1Step(p, n))
        ELSE Local(Multiplicity(p, a), LAMBDA r :
                 IF r % 2 = 1 THEN <<>>
                 ELSE Local(sqrt_mod_prime_power(a \div Pow(p, r), p, n - r, rnd),
                            LAMBDA res :
                          IF res = <<>> THEN <<>>
                          ELSE Sqrt1Spread(res, p, n, r \div 2, pn)))))

\* cycle(enumerate(it)) before its first value: nothing saved, all of it
\* still to be taken
CycleOf(it) == [saved |-> <<>>, fresh |-> it, at |-> 1]

\* next(c) for c = cycle(enumerate(it)): the index and the value; a value is
\* taken from it while there is one, and saved; afterwards the saved values
\* are gone through again and again
CycleNext(c) ==
    IF c.fresh # <<>>
    THEN [i |-> Len(c.saved), v |-> Head(c.fresh),
          c |-> [c EXCEPT !.saved = Append(@, Head(c.fresh)), !.fresh = Tail(@)]]
    ELSE [i |-> c.at - 1, v |-> c.saved[c.at],
          c |-> [c EXCEPT !.at = (@ % Len(c.saved)) + 1]]

RECURSIVE ProductAdvance(_, _, _, _)
\* faulty variant: the loop stops at the first position that has wrapped
ProductAdvanceNoCarry(inf_iters, cur_val, p, i) ==
    IF p = 0 \/ i # 0 \/ p < Len(cur_val) THEN [inf_iters |-> inf_iters, cur_val |-> cur_val, p |-> p, i |-> i]
    ELSE Local(CycleNext(inf_iters[p]), LAMBDA nx :
             ProductAdvance([inf_iters EXCEPT ![p] = nx.c], [cur_val EXCEPT ![p] = nx.v],
                            p - 1, nx.i))

\* while p and not i: p -= 1; i, cur_val[p] = next(inf_iters[p])
\* (positions are counted from 1 here, so p is lowered after its use)
ProductAdvance(inf_iters, cur_val, p, i) ==
    IF p = 0 \/ i # 0 THEN [inf_iters |-> inf_iters, cur_val |-> cur_val, p |-> p, i |-> i]
    ELSE Local(CycleNext(inf_iters[p]), LAMBDA nx :
             ProductAdvance([inf_iters EXCEPT ![p] = nx.c], [cur_val EXCEPT ![p] = nx.v],
                            p - 1, nx.i))

\* faulty variant: only the last position ever advances
productNoCarry(iters) ==
    IF iters = <<>> THEN << <<>> >>
    ELSE [j \in DOMAIN iters[Len(iters)] |->
            [i \in DOMAIN iters |-> IF i = Len(iters) THEN iters[i][j] ELSE iters[i][1]]]

RECURSIVE product(_)
\* _product(*iters) as the list of the combinations it yields: the last
\* position varies fastest
product(iters) ==
    IF iters = <<>> THEN << <<>> >>
    ELSE Local(product(Tail(iters)), LAMBDA rest : Local(Head(iters), LAMBDA first :
             Flatten([i \in DOMAIN first |->
                        [j \in DOMAIN rest |-> <<first[i]>> \o rest[j]]])))

\* the body of the loop of sqrt_mod_iter over factorint(p).items(): rx
PrimePowerRootsOf(a, px, ex, rnd) ==
    IF a % px = 0 THEN sqrt_mod1(a, px, ex, rnd)
    ELSE sqrt_mod_prime_power(a, px, ex, rnd)

\* the loop of sqrt_mod_iter over factorint(p).items(): the list v, in which
\* a prime power without a root has the entry <<>>
PrimePowerRoots(a, f, rnd) ==
    [i \in DOMAIN f |-> PrimePowerRootsOf(a, f[i][1], f[i][2], rnd)]

\* sqrt_mod_iter(a, p) as the list of the values it yields, in order
sqrt_mod_iter(a0, p0, rnd) ==
    Local(Abs(p0), LAMBDA p :
        IF IsPrime(p)
        THEN Local(a0 % p, LAMBDA a :
                 IF a = 0 THEN sqrt_mod1(a, p, 1, rnd)
                 ELSE sqrt_mod_prime_power(a, p, 1, rnd))
        ELSE Local(Factorint(p), LAMBDA f :
             Local(PrimePowerRoots(a0, f, rnd), LAMBDA v :
             Local([i \in DOMAIN f |-> Pow(f[i][1], f[i][2])], LAMBDA pv :
                 IF \E i \in DOMAIN v : v[i] = <<>> THEN <<>>
                 ELSE Local(product(v), LAMBDA combos :
                          [i \in DOMAIN combos |-> GfCrt(combos[i], pv)])))))

\* faulty variant: the second value is never asked for
SecondLookSkipped(seq, p) == RInt(seq[1])

\* the first value is p // 2: r = next(it) once more; a second value above
\* p // 2 is reflected, StopIteration keeps the first value
SecondLook(seq, p) ==
    IF Len(seq) >= 2
    THEN (IF seq[2] > p \div 2 THEN RInt(p - seq[2]) ELSE RInt(seq[2]))
    ELSE RInt(seq[1])

\* faulty variant: the first value is returned as it is
SingleRootNoFlip(seq, p) ==
    IF seq = <<>> THEN RNone ELSE RInt(seq[1])

\* sqrt_mod with all_roots=False: the choice made from the first one or two
\* values of the iterator
SingleRoot(seq, p) ==
    IF seq = <<>> THEN RNone
    ELSE IF seq[1] > p \div 2 THEN RInt(p - seq[1])
    ELSE IF seq[1] < p \div 2 THEN RInt(seq[1])
    ELSE SecondLook(seq, p)

sqrt_mod(a, p, all_roots, rnd) ==
    IF all_roots THEN RList(Sorted(sqrt_mod_iter(a, p, rnd)))
    ELSE Local(sqrt_mod_iter(a, Abs(p), rnd), LAMBDA seq : SingleRoot(seq, Abs(p)))

(***************************************************************************)
(* Residue tests.                                                          *)
(***************************************************************************)
\* faulty variant: Euler's criterion applied to every modulus, prime or not
is_quad_residue_euler(a0, p, rnd) ==
    IF p < 1 THEN RValueError
    ELSE Local(IF a0 >= p \/ a0 < 0 THEN a0 % p ELSE a0, LAMBDA a :
        IF a < 2 \/ p < 3 THEN RBool(TRUE)
        ELSE RBool(ModPow(a, (p - 1) \div 2, p) = 1))

is_quad_residue(a0, p, rnd) ==
    IF p < 1 THEN RValueError
    ELSE Local(IF a0 >= p \/ a0 < 0 THEN a0 % p ELSE a0, LAMBDA a :
        IF a < 2 \/ p < 3 THEN RBool(TRUE)
        ELSE IF ~IsPrime(p)
        THEN IF p % 2 = 1 /\ Jacobi(a, p) = -1 THEN RBool(FALSE)
             ELSE RBool(sqrt_mod(a, p, FALSE, rnd) # RNone)
        ELSE RBool(ModPow(a, (p - 1) \div 2, p) = 1))

\* the part of _is_nthpow_residue_bign_prime_power after its while loop
BignCoprime(a, n, p, k) ==
    IF p # 2
    THEN Local(Pow(p, k - 1) * (p - 1), LAMBDA f :
             ModPow(a, f \div Gcd(f, n), Pow(p, k)) = 1)
    ELSE IF n % 2 = 1 THEN TRUE
    ELSE a % Pow(2, Min({Trailing(n) + 2, k})) = 1

RECURSIVE is_nthpow_residue_bign_prime_power(_, _, _, _)
\* _is_nthpow_residue_bign_prime_power(a, n, p, k)
is_nthpow_residue_bign_prime_power(a0, n, p, k) ==
    IF a0 % p = 0
    THEN Local(a0 % Pow(p, k), LAMBDA a :
             IF a = 0 THEN TRUE
             ELSE Local(Multiplicity(p, a), LAMBDA mu :
                      IF mu % n # 0 THEN FALSE
                      ELSE is_nthpow_residue_bign_prime_power(a \div Pow(p, mu), n, p,
                                                              k - mu)))
    ELSE BignCoprime(a0, n, p, k)

is_nthpow_residue(a0, n, m, rnd) ==
    IF m = 0 THEN RZeroDivisionError
    ELSE IF m < 0 THEN RValueError
    ELSE IF n < 0 THEN RValueError
    ELSE Local(a0 % m, LAMBDA a :
        IF n = 0 THEN (IF m = 1 THEN RBool(FALSE) ELSE RBool(a = 1))
        ELSE IF a = 0 THEN RBool(TRUE)
        ELSE IF n = 1 THEN RBool(TRUE)
        ELSE IF n = 2 THEN is_quad_residue(a, m, rnd)
        ELSE Local(Factorint(m), LAMBDA f :
                 RBool(\A i \in DOMAIN f :
                           is_nthpow_residue_bign_prime_power(a, n, f[i][1], f[i][2]))))

(***************************************************************************)
(* Discrete logarithm by trial multiplication.                             *)
(***************************************************************************)
\* the value that stands for a raised ValueError where an integer is expected
Raised == -1

RECURSIVE TrialMulLoop(_, _, _, _, _, _)
\* for i in range(order): if x == a: return i; x = x * b % n
TrialMulLoop(x0, i, a, b, n, order) ==
    Local(x0, LAMBDA x :
        IF i >= order THEN Raised
        ELSE IF x = a THEN i
        ELSE TrialMulLoop((x * b) % n, i + 1, a, b, n, order))

\* _discrete_log_trial_mul(n, a, b, order)
discrete_log_trial_mul(n, a, b, order) == TrialMulLoop(1, 0, a % n, b % n, n, order)

\* crt(m, v)[0] for pairwise coprime moduli
Crt(m, v) == GfCrt(v, m)

\* sqrt(x) of gmpy: the integer square root
Isqrt(x) == CHOOSE r \in 0..x : r * r <= x /\ (r + 1) * (r + 1) > x

\* T = {}; x = 1; for i in range(m): T[x] = i; x = x * b % n
\* leaves in T[r] the last i < m whose x was r, x being 1 for i = 0 and
\* b**i % n after it; BabySteps is T[r], and -1 when r is not in T
BabySteps(r, b, n, m) ==
    Local({i \in 0..(m - 1) : (IF i = 0 THEN 1 ELSE ModPow(b, i, n)) = r}, LAMBDA I :
        IF I = {} THEN -1 ELSE CHOOSE i \in I : \A k \in I : k <= i)

\* x = a; for i in range(m): if x in T: return i * m + T[x]; x = x * z % n
\* returns at the first i < m whose x = a * z**i % n is in T
GiantSteps(a, z, b, n, m) ==
    Local({i \in 0..(m - 1) : BabySteps((a * ModPow(z, i, n)) % n, b, n, m) # -1},
          LAMBDA I :
        IF I = {} THEN Raised
        ELSE Local(CHOOSE i \in I : \A k \in I : i <= k, LAMBDA i :
                 i * m + BabySteps((a * ModPow(z, i, n)) % n, b, n, m)))

\* _discrete_log_shanks_steps(n, a, b, order), b invertible modulo n
discrete_log_shanks_steps(n, a0, b0, order) ==
    Local(a0 % n, LAMBDA a : Local(b0 % n, LAMBDA b :
    Local(Isqrt(order) + 1, LAMBDA m :
    Local(ModPowNeg(b, m, n), LAMBDA z :
        GiantSteps(a, z, b, n, m)))))

\* an order is carried as <<hi, lo>> with value hi * Limb + lo where the
\* selection is made, so that the comparison with 10**12 = Limb * Limb can
\* be taken
Limb == 1000000

Limbs(order) == <<order \div Limb, order % Limb>>

\* faulty variant: primality is looked at before the size of the order
discrete_log_select_prime_first(order, prime_order) ==
    IF prime_order
    THEN (IF order[1] < Limb THEN "_discrete_log_shanks_steps"
          ELSE "_discrete_log_pollard_rho")
    ELSE IF order[1] = 0 /\ order[2] < 1000 THEN "_discrete_log_trial_mul"
    ELSE "_discrete_log_pohlig_hellman"

\* discrete_log: the function the call is handed to, from order and prime_order
discrete_log_select(order, prime_order) ==
    IF order[1] = 0 /\ order[2] < 1000 THEN "_discrete_log_trial_mul"
    ELSE IF prime_order
    THEN (IF order[1] < Limb THEN "_discrete_log_shanks_steps"
          ELSE "_discrete_log_pollard_rho")
    ELSE "_discrete_log_pohlig_hellman"

\* discrete_log(n, a, b, order, True): the nested call of Pohlig-Hellman.
\* Every order that is run here is below 2**31, hence below 10**12: the
\* selection never gives _discrete_log_pollard_rho for it.
discrete_log_prime_order(n, a, b, order) ==
    Local(discrete_log_select(Limbs(order), TRUE), LAMBDA fn :
        IF fn = "_discrete_log_trial_mul" THEN discrete_log_trial_mul(n, a, b, order)
        ELSE discrete_log_shanks_steps(n, a, b, order))

RECURSIVE PohligDigits(_, _, _, _, _, _, _, _)
\* faulty variant: a sub-problem without a logarithm counts as digit 0
PohligDigitsIgnore(l0, j, pi, ri, n, a, b, order) ==
    Local(l0, LAMBDA l :
        IF j >= ri THEN l
        ELSE Local(ModPow(a * (IF l = 0 THEN 1 ELSE ModPowNeg(b, l, n)),
                          order \div Pow(pi, j + 1), n), LAMBDA aj :
             Local(ModPow(b, order \div pi, n), LAMBDA bj :
             Local(discrete_log_prime_order(n, aj, bj, pi), LAMBDA cj :
                 PohligDigits(l + (IF cj = Raised THEN 0 ELSE cj) * Pow(pi, j), j + 1,
                              pi, ri, n, a, b, order)))))

\* for j in range(ri): aj, bj, cj = discrete_log(n, aj, bj, pi, True);
\* l[i] += cj * pi**j  (a ValueError of the sub-problem ends the call)
PohligDigits(l0, j, pi, ri, n, a, b, order) ==
    Local(l0, LAMBDA l :
        IF j >= ri THEN l
        ELSE Local(ModPow(a * (IF l = 0 THEN 1 ELSE ModPowNeg(b, l, n)),
                          order \div Pow(pi, j + 1), n), LAMBDA aj :
             Local(ModPow(b, order \div pi, n), LAMBDA bj :
             Local(discrete_log_prime_order(n, aj, bj, pi), LAMBDA cj :
                 IF cj = Raised THEN Raised
                 ELSE PohligDigits(l + cj * Pow(pi, j), j + 1, pi, ri, n, a, b, order)))))

\* _discrete_log_pohlig_hellman(n, a, b, order), b invertible modulo n
discrete_log_pohlig_hellman(n, a0, b0, order) ==
    Local(a0 % n, LAMBDA a : Local(b0 % n, LAMBDA b :
    Local(Factorint(order), LAMBDA f :
    Local([i \in DOMAIN f |-> PohligDigits(0, 0, f[i][1], f[i][2], n, a, b, order)],
          LAMBDA l :
        IF \E i \in DOMAIN l : l[i] = Raised THEN Raised
        ELSE Crt([i \in DOMAIN f |-> Pow(f[i][1], f[i][2])], l)))))

\* discrete_log(n, a, b, order, prime_order) with both given
discrete_log_order(n, a, b, order, prime_order) ==
    Local(discrete_log_select(Limbs(order), prime_order), LAMBDA fn :
        IF fn = "_discrete_log_trial_mul" THEN discrete_log_trial_mul(n, a, b, order)
        ELSE IF fn = "_discrete_log_pohlig_hellman"
        THEN discrete_log_pohlig_hellman(n, a, b, order)
        ELSE discrete_log_shanks_steps(n, a, b, order))

\* discrete_log(n, a, b): order = n_order(b, n), prime_order = isprime(order)
discrete_log(n, a, b) ==
    Local(n_order(b, n), LAMBDA order :
        IF order.kind # "int" THEN Raised
        ELSE discrete_log_order(n, a, b, order.val, IsPrime(order.val)))

\* one entry of the record of the calls made during a call: the function
\* entered, how deep discrete_log is nested there, and the order and
\* prime_order it was entered with
LogEntry(fn, depth, order, prime_order) ==
    [fn |-> fn, depth |-> depth, order |-> order, prime_order |-> prime_order]

RECURSIVE DigitCalls(_, _, _, _, _, _, _, _, _)
\* faulty variant: the nested calls are made with the prime power pi**ri
\* and prime_order = isprime(pi**ri)
DigitCallsPrimePower(l0, j, pi, ri, n, a, b, order, depth) ==
    Local(l0, LAMBDA l :
        IF j >= ri THEN [calls |-> <<>>, raised |-> FALSE]
        ELSE Local(ModPow(a * (IF l = 0 THEN 1 ELSE ModPowNeg(b, l, n)),
                          order \div Pow(pi, j + 1), n), LAMBDA aj :
             Local(ModPow(b, order \div pi, n), LAMBDA bj :
             Local(discrete_log_prime_order(n, aj, bj, pi), LAMBDA cj :
             Local(<<LogEntry("discrete_log", depth, Limbs(Pow(pi, ri)), IsPrime(Pow(pi, ri))),
                     LogEntry(discrete_log_select(Limbs(Pow(pi, ri)), IsPrime(Pow(pi, ri))),
                              depth, Limbs(Pow(pi, ri)), IsPrime(Pow(pi, ri)))>>,
                   LAMBDA this :
                 IF cj = Raised THEN [calls |-> this, raised |-> TRUE]
                 ELSE Local(DigitCalls(l + cj * Pow(pi, j), j + 1, pi, ri, n, a, b, order,
                                       depth), LAMBDA rest :
                          [calls |-> this \o rest.calls, raised |-> rest.raised]))))))

\* _discrete_log_pohlig_hellman, for j in range(ri): the calls
\* discrete_log(n, aj, bj, pi, True) made, up to the one that raises
DigitCalls(l0, j, pi, ri, n, a, b, order, depth) ==
    Local(l0, LAMBDA l :
        IF j >= ri THEN [calls |-> <<>>, raised |-> FALSE]
        ELSE Local(ModPow(a * (IF l = 0 THEN 1 ELSE ModPowNeg(b, l, n)),
                          order \div Pow(pi, j + 1), n), LAMBDA aj :
             Local(ModPow(b, order \div pi, n), LAMBDA bj :
             Local(discrete_log_prime_order(n, aj, bj, pi), LAMBDA cj :
             Local(<<LogEntry("discrete_log", depth, Limbs(pi), TRUE),
                     LogEntry(discrete_log_select(Limbs(pi), TRUE), depth, Limbs(pi), TRUE)>>,
                   LAMBDA this :
                 IF cj = Raised THEN [calls |-> this, raised |-> TRUE]
                 ELSE Local(DigitCalls(l + cj * Pow(pi, j), j + 1, pi, ri, n, a, b, order,
                                       depth), LAMBDA rest :
                          [calls |-> this \o rest.calls, raised |-> rest.raised]))))))

RECURSIVE FactorCalls(_, _, _, _, _, _, _)
\* _discrete_log_pohlig_hellman, for i, (pi, ri) in enumerate(f.items()):
\* a ValueError of a nested call ends the loops
FactorCalls(i, f, n, a, b, order, depth) ==
    IF i > Len(f) THEN <<>>
    ELSE Local(DigitCalls(0, 0, f[i][1], f[i][2], n, a, b, order, depth), LAMBDA d :
             IF d.raised THEN d.calls
             ELSE d.calls \o FactorCalls(i + 1, f, n, a, b, order, depth))

\* the calls made by _discrete_log_pohlig_hellman(n, a, b, order); depth is
\* the nesting of discrete_log in them
pohlig_hellman_calls(n, a0, b0, order, depth) ==
    FactorCalls(1, Factorint(order), n, a0 % n, b0 % n, order, depth)

\* the calls of discrete_log(n, a, b, order, prime_order), itself included
discrete_log_calls(n, a, b, order, prime_order) ==
    Local(discrete_log_select(Limbs(order), prime_order), LAMBDA fn :
        <<LogEntry("discrete_log", 1, Limbs(order), prime_order),
          LogEntry(fn, 1, Limbs(order), prime_order)>>
        \o (IF fn = "_discrete_log_pohlig_hellman"
            THEN pohlig_hellman_calls(n, a, b, order, 2) ELSE <<>>))

\* one step of the walk of _discrete_log_pollard_rho on w = (x, exponent of
\* b, exponent of a): the branch on c = x % 3
RhoStep(w0, n, a, b, order) ==
    Local(w0, LAMBDA w :
        IF w[1] % 3 = 0 THEN <<(a * w[1]) % n, w[2], (w[3] + 1) % order>>
        ELSE IF w[1] % 3 = 1
        THEN <<(w[1] * w[1]) % n, (w[2] + w[2]) % order, (w[3] + w[3]) % order>>
        ELSE <<(b * w[1]) % n, (w[2] + 1) % order, w[3]>>)

\* if xa == xb: r = (ba - bb) % order; e = invert(r, order) * (ab - aa) % order
\* (ZeroDivisionError caught); if (pow(b, e, n) - a) % n == 0: return e; break
RhoCollision(wa, wb, n, a, b, order, steps) ==
    Local((wa[3] - wb[3]) % order, LAMBDA r :
        IF Gcd(r, order) # 1
        THEN [outcome |-> "not invertible", steps |-> steps, e |-> Raised]
        ELSE Local((Invert(r, order) * (wb[2] - wa[2])) % order, LAMBDA e :
                 IF (ModPow(b, e, n) - a) % n = 0
                 THEN [outcome |-> "found", steps |-> steps, e |-> e]
                 ELSE [outcome |-> "check failed", steps |-> steps, e |-> Raised]))

RECURSIVE RhoWalk(_, _, _, _, _, _, _)
\* for j in range(order): xa steps once, xb steps twice
RhoWalk(wa0, wb0, j, n, a, b, order) ==
    IF j >= order THEN [outcome |-> "no collision", steps |-> j, e |-> Raised]
    ELSE Local(RhoStep(wa0, n, a, b, order), LAMBDA wa :
         Local(RhoStep(RhoStep(wb0, n, a, b, order), n, a, b, order), LAMBDA wb :
             IF wa[1] = wb[1] THEN RhoCollision(wa, wb, n, a, b, order, j + 1)
             ELSE RhoWalk(wa, wb, j + 1, n, a, b, order)))

\* one pass of for i in range(retries), aa and ba being the values drawn
RhoAttempt(n, a, b, order, aa, ba) ==
    Local(<<(ModPow(b, aa, n) * ModPow(a, ba, n)) % n, aa, ba>>, LAMBDA wa :
        RhoWalk(wa, RhoStep(wa, n, a, b, order), 0, n, a, b, order))

(***************************************************************************)
(* n-th roots.                                                             *)
(***************************************************************************)
RECURSIVE StripFactor(_, _)
\* while f % qx == 0: f //= qx
StripFactor(f, qx) == IF f % qx = 0 THEN StripFactor(f \div qx, qx) ELSE f

RECURSIVE Root1Inner(_, _, _, _, _, _, _, _)
\* for _ in range(ex): r = pow(r, x, p)*pow(g, -z*t % (p - 1), p) % p; t //= qx
Root1Inner(r0, t0, ex, x, z, g, qx, p) ==
    Local(r0, LAMBDA r : Local(t0, LAMBDA t :
        IF ex = 0 THEN r
        ELSE Root1Inner((ModPow(r, x, p) * ModPow(g, (-z * t) % (p - 1), p)) % p,
                        t \div qx, ex - 1, x, z, g, qx, p)))

RECURSIVE Root1Outer(_, _, _, _)
\* the loop of _nthroot_mod1 over factorint(q).items(); Raised when the
\* discrete logarithm does not exist
Root1Outer(r0, items, g, p) ==
    Local(r0, LAMBDA r :
        IF items = <<>> THEN r
        ELSE Local(Head(items)[1], LAMBDA qx : Local(Head(items)[2], LAMBDA ex :
             Local(StripFactor((p - 1) \div Pow(qx, ex), qx), LAMBDA f :
             Local(f * Invert(-f, qx), LAMBDA z :
             Local(discrete_log(p, ModPow(r, f, p), ModPow(g, f * qx, p)), LAMBDA t :
                 IF t = Raised THEN Raised
                 ELSE Root1Outer(Root1Inner(r, t, ex, (1 + z) \div qx, z, g, qx, p),
                                 Tail(items), g, p)))))))

RECURSIVE Root1Spread(_, _, _, _)
\* res = [r]; hx = r; for _ in range(q - 1): hx = (hx*h) % p; res.append(hx)
Root1Spread(hx0, h, count, p) ==
    Local(hx0, LAMBDA hx :
        IF count = 0 THEN <<hx>>
        ELSE <<hx>> \o Root1Spread((hx * h) % p, h, count - 1, p))

\* _nthroot_mod1(s, q, p, all_roots)
nthroot_mod1(s, q, p, all_roots) ==
    Local(primitive_root(p, TRUE).val, LAMBDA g :
    Local(Root1Outer(s, Factorint(q), g, p), LAMBDA r :
        IF r = Raised THEN RValueError
        ELSE Local(Root1Spread(r, ModPow(g, (p - 1) \div q, p), q - 1, p), LAMBDA res :
                 IF all_roots THEN RList(Sorted(res)) ELSE RInt(Min(Range(res))))))

\* diff_method of _nthroot_mod_composite: (pow(root, n - 1, p) * (n % p)) % p
DiffMethod(root, n, p) == (ModPow(root, n - 1, p) * (n % p)) % p

\* expr_val of _nthroot_mod_composite: (pow(root, n, p) - a) % p
ExprVal(root, a, n, p) == (ModPow(root, n, p) - a) % p

RECURSIVE HenselSteps(_, _, _, _, _, _, _, _)
\* for j in range(1, e): ppow *= p; root = (root - expr_val(root, ppow) * m_inv) % ppow
HenselSteps(root0, ppow0, p, j, e, m_inv, a, n) ==
    Local(root0, LAMBDA root : Local(ppow0, LAMBDA ppow :
        IF j >= e THEN root
        ELSE HenselSteps((root - ExprVal(root, a, n, ppow * p) * m_inv) % (ppow * p),
                         ppow * p, p, j + 1, e, m_inv, a, n)))

\* faulty variant: only k itself is added
LiftOrbitSelf(k0, step, new_base, new_roots0) == new_roots0 \cup {k0}

RECURSIVE LiftOrbit(_, _, _, _)
\* while k not in new_roots: new_roots.add(k); k = (k + (new_base // p)) % new_base
LiftOrbit(k0, step, new_base, new_roots0) ==
    Local(k0, LAMBDA k : Local(new_roots0, LAMBDA new_roots :
        IF k \in new_roots THEN new_roots
        ELSE LiftOrbit((k + step) % new_base, step, new_base, new_roots \cup {k})))

RECURSIVE LiftRoots(_, _, _, _, _, _)
\* for k in roots_in_base: skip k unless expr_val(k, new_base) == 0, else add
\* its orbit to new_roots
LiftRoots(ks, new_roots0, new_base, p, a, n) ==
    Local(new_roots0, LAMBDA new_roots :
        IF ks = <<>> THEN new_roots
        ELSE LiftRoots(Tail(ks),
                       IF ExprVal(Head(ks), a, n, new_base) # 0 THEN new_roots
                       ELSE LiftOrbit(Head(ks), new_base \div p, new_base, new_roots),
                       new_base, p, a, n))

RECURSIVE BruteLift(_, _, _, _, _, _)
\* while new_base < pow(p, e): new_base *= p; roots_in_base = new_roots
BruteLift(roots_in_base0, new_base0, p, e, a, n) ==
    Local(roots_in_base0, LAMBDA roots_in_base : Local(new_base0, LAMBDA new_base :
        IF new_base >= Pow(p, e) THEN roots_in_base
        ELSE BruteLift(LiftRoots(SortedSeq(roots_in_base), {}, new_base * p, p, a, n),
                       new_base * p, p, e, a, n)))

\* the contribution of one root modulo p to tot_roots (e > 1)
LiftedRoots(root, p, e, a, n) ==
    Local(DiffMethod(root, n, p), LAMBDA diff :
        IF diff # 0
        THEN {HenselSteps(root, p, p, 1, e, Invert(diff, p), a, n)}
        ELSE BruteLift({root}, p, p, e, a, n))

\* tot_roots of _help for the prime power p**e, from the roots modulo p
TotRoots(roots, p, e, a, n) ==
    IF e = 1 THEN Range(roots)
    ELSE UNION {LiftedRoots(roots[i], p, e, a, n) : i \in DOMAIN roots}

RECURSIVE CartesianProduct(_)
\* itertools.product(*a) as the set of its tuples
CartesianProduct(sets) ==
    IF sets = <<>> THEN {<<>>}
    ELSE Local(CartesianProduct(Tail(sets)), LAMBDA rest :
             {<<x>> \o r : x \in Head(sets), r \in rest})

RECURSIVE nthroot_mod(_, _, _, _, _)

\* _help(m, ...) with the three methods of _nthroot_mod_composite(a, n, m)
nthroot_mod_composite(a, n, m, rnd) ==
    Local(Factorint(m), LAMBDA f :
    Local([i \in DOMAIN f |-> nthroot_mod(a, n, f[i][1], TRUE, rnd)], LAMBDA prime_roots :
        IF \E i \in DOMAIN f : prime_roots[i].kind # "list" THEN RValueError
        ELSE Local([i \in DOMAIN f |->
                      TotRoots(prime_roots[i].list, f[i][1], f[i][2], a, n)], LAMBDA dd :
                 IF \E i \in DOMAIN f : dd[i] = {} THEN RList(<<>>)
                 ELSE Local([i \in DOMAIN f |-> Pow(f[i][1], f[i][2])], LAMBDA ms :
                          RList(SortedSeq({Crt(ms, c) : c \in CartesianProduct(dd)}))))))

\* q, r = divmod(pa, pb); pa, pb = pb, r
ReduceExponents(pa, pb) == <<pb, pa % pb>>

\* faulty variant: b is raised to q in place of -q
ReduceValuePositive(a, b, pa, pb, p) == (ModPow(b, pa \div pb, p) * a) % p

\* q, r = divmod(pa, pb); c = pow(b, -q, p) * a % p
ReduceValue(a, b, pa, pb, p) == (ModPowNeg(b, pa \div pb, p) * a) % p

RECURSIVE GcdReduce(_, _, _, _, _)
\* while pb: q, r = divmod(pa, pb); c = pow(b, -q, p) * a % p;
\*           pa, pb = pb, r; a, b = b, c
\* the result is the pair (a, pa)
GcdReduce(a0, pa0, b0, pb0, p) ==
    Local(a0, LAMBDA a : Local(pa0, LAMBDA pa : Local(b0, LAMBDA b : Local(pb0, LAMBDA pb :
        IF pb = 0 THEN <<a, pa>>
        ELSE GcdReduce(b, pb, (ModPowNeg(b, pa \div pb, p) * a) % p, pa % pb, p)))))

\* faulty variant: for pa == 1 the list is returned whatever all_roots is
ReduceResultList(a, pa, p, all_roots, rnd) ==
    IF pa = 1 THEN RList(<<a>>)
    ELSE IF pa = 2 THEN sqrt_mod(a, p, all_roots, rnd)
    ELSE nthroot_mod1(a, pa, p, all_roots)

\* after the loop: the root is a, or comes from sqrt_mod or from _nthroot_mod1
ReduceResult(a, pa, p, all_roots, rnd) ==
    IF pa = 1 THEN (IF all_roots THEN RList(<<a>>) ELSE RInt(a))
    ELSE IF pa = 2 THEN sqrt_mod(a, p, all_roots, rnd)
    ELSE nthroot_mod1(a, pa, p, all_roots)

\* nthroot_mod after the residue test, when n does not divide p - 1
NthrootReduced(a, n, p, all_roots, rnd) ==
    Local(IF n < p - 1 THEN GcdReduce(1, p - 1, a, n, p)
                       ELSE GcdReduce(a, n, 1, p - 1, p), LAMBDA apa :
        IF apa[2] = 1 THEN (IF all_roots THEN RList(<<apa[1]>>) ELSE RInt(apa[1]))
        ELSE IF apa[2] = 2 THEN sqrt_mod(apa[1], p, all_roots, rnd)
        ELSE nthroot_mod1(apa[1], apa[2], p, all_roots))

nthroot_mod(a0, n, p, all_roots, rnd) ==
    Local(a0 % p, LAMBDA a :
        IF n = 2 THEN sqrt_mod(a, p, all_roots, rnd)
        ELSE IF ~IsPrime(p) THEN nthroot_mod_composite(a, n, p, rnd)
        ELSE IF a % p = 0 THEN RList(<<0>>)
        ELSE IF is_nthpow_residue(a, n, p, rnd) # RBool(TRUE)
             THEN (IF all_roots THEN RList(<<>>) ELSE RNone)
        ELSE IF (p - 1) % n = 0 THEN nthroot_mod1(a, n, p, all_roots)
        ELSE NthrootReduced(a, n, p, all_roots, rnd))

(***************************************************************************)
(* Congruence solver.                                                      *)
(***************************************************************************)
\* linear_congruence(a, b, m) of sympy.polys.galoistools: the list of the
\* solutions of a*x = b (mod m) in [0, m).  The interface promises the
\* solutions and no order; rot is where the list starts in the ascending
\* cycle of the solutions.
linear_congruence(a, b, m, rot) ==
    Local(SortedSeq({x \in 0..(m - 1) : (a * x - b) % m = 0}), LAMBDA s :
        [i \in DOMAIN s |-> s[((i - 1 + rot) % Len(s)) + 1]])

\* gf_csolve(coefficients, m) of sympy.polys.galoistools: the solutions in
\* [0, m) of the polynomial with these coefficients, highest degree first
gf_csolve(coefficients, m) ==
    SortedSeq({x \in 0..(m - 1) :
        SeqSum([i \in DOMAIN coefficients |->
                   coefficients[i] * ModPow(x, Len(coefficients) - i, m)]) % m = 0})

\* quadratic_congruence: if p == 2, the enumeration of 0 and 1
QuadraticMod2(a, b, c) ==
    (IF c % 2 = 0 THEN <<0>> ELSE <<>>) \o (IF (a + b + c) % 2 = 0 THEN <<1>> ELSE <<>>)

\* quadratic_congruence: if isprime(p), completing the square
QuadraticPrime(a, b0, c0, p, rnd) ==
    Local(Invert(a, p), LAMBDA inv_a :
    Local(b0 * inv_a, LAMBDA b1 :
    Local(c0 * inv_a, LAMBDA c :
    Local(IF b1 % 2 = 1 THEN b1 + p ELSE b1, LAMBDA b :
    Local(sqrt_mod(((b * b) \div 4 - c) % p, p, TRUE, rnd).list, LAMBDA y :
        SortedSeq({(i - b \div 2) % p : i \in Range(y)}))))))

\* quadratic_congruence: composite p, the square roots of the discriminant
\* modulo 4*a*p mapped back by 2*a*x = y - b (the solutions are put in a
\* set, the order of linear_congruence makes no difference)
QuadraticComposite(a, b, c, p, rnd) ==
    Local(sqrt_mod(b * b - 4 * a * c, 4 * a * p, TRUE, rnd).list, LAMBDA y :
        SortedSeq(UNION {{j % p : j \in Range(linear_congruence(2 * a, i - b, 4 * a * p, 0))} :
                            i \in Range(y)}))

\* quadratic_congruence(a, b, c, p); the result is a list
quadratic_congruence(a0, b0, c0, p, rot, rnd) ==
    Local(a0 % p, LAMBDA a : Local(b0 % p, LAMBDA b : Local(c0 % p, LAMBDA c :
        IF a = 0 THEN linear_congruence(b, -c, p, rot)
        ELSE IF p = 2 THEN QuadraticMod2(a, b, c)
        ELSE IF IsPrime(p) THEN QuadraticPrime(a, b, c, p, rnd)
        ELSE QuadraticComposite(a, b, c, p, rnd))))

\* faulty variant: the leading coefficient is not looked at
NthRootPatternAnyLead(coefficients) ==
    1 + coefficients[Len(coefficients)] = SeqSum(coefficients)

\* coefficients[0] == 1 and 1 + coefficients[-1] == sum(coefficients)
NthRootPattern(coefficients) ==
    /\ coefficients[1] = 1
    /\ 1 + coefficients[Len(coefficients)] = SeqSum(coefficients)

\* polynomial_congruence(expr, m) for the coefficients of expr, highest
\* degree first; the result is a list
polynomial_congruence(coeffs, m, rot, rnd) ==
    Local([i \in DOMAIN coeffs |-> coeffs[i] % m], LAMBDA coefficients :
    Local(Len(coefficients), LAMBDA rank :
        IF rank = 3
        THEN quadratic_congruence(coefficients[1], coefficients[2], coefficients[3], m,
                                  rot, rnd)
        ELSE IF rank = 2
        THEN quadratic_congruence(0, coefficients[1], coefficients[2], m, rot, rnd)
        ELSE IF NthRootPattern(coefficients)
        THEN nthroot_mod(-coefficients[rank], rank - 1, m, TRUE, rnd).list
        ELSE gf_csolve(coefficients, m)))

(***************************************************************************)
(* Binomial coefficients modulo k.                                         *)
(***************************************************************************)
RECURSIVE MulRange(_, _, _, _)
\* for i in range(lo, hi): x *= i; x %= modulo
MulRange(x0, lo, hi, modulo) ==
    Local(x0, LAMBDA x :
        IF lo >= hi THEN x ELSE MulRange((x * lo) % modulo, lo + 1, hi, modulo))

\* pow(b, e, modulo) for an exponent of either sign
PyPow(b, e, modulo) == IF e < 0 THEN ModPowNeg(b, -e, modulo) ELSE ModPow(b, e, modulo)

RECURSIVE BjMul(_, _, _, _, _)
\* bj: for i in range(1, r + 1): if i != j: prod *= u*u - i*i
BjMul(prod0, i, u, j, r) ==
    Local(prod0, LAMBDA prod :
        IF i > r THEN prod
        ELSE BjMul(IF i # j THEN prod * (u * u - i * i) ELSE prod, i + 1, u, j, r))

RECURSIVE BjDiv(_, _, _, _)
\* bj: for i in range(1, r + 1): if i != j: prod //= j*j - i*i
BjDiv(prod0, i, j, r) ==
    Local(prod0, LAMBDA prod :
        IF i > r THEN prod
        ELSE BjDiv(IF i # j THEN prod \div (j * j - i * i) ELSE prod, i + 1, j, r))

\* bj(u, j, r): the exponent of (j*p)!_p in the calculation of (u*p)!_p
bj(u, j, r) == BjDiv(BjMul(u, 1, u, j, r), 1, j, r) \div j

RECURSIVE UpFactorialLoop(_, _, _, _, _, _, _)
\* up_factorial: for j in range(1, r + 1), fac running over the blocks
UpFactorialLoop(j, fac0, prod0, u, r, p, modulo) ==
    IF j > r THEN prod0
    ELSE Local(MulRange(fac0, (j - 1) * p + 1, j * p, modulo), LAMBDA fac :
             UpFactorialLoop(j + 1, fac,
                             (prod0 * PyPow(fac, bj(u, j, r), modulo)) % modulo,
                             u, r, p, modulo))

\* up_factorial: sm = u // 2 + sum of j//2 * bj(u, j, r)
UpFactorialSm(u, r) == u \div 2 + SeqSum([j \in 1..r |-> (j \div 2) * bj(u, j, r)])

\* up_factorial(u): (u*p)!_p modulo p**q
up_factorial(u, p, q) ==
    Local(q \div 2, LAMBDA r0 :
    Local((r0 = 1 /\ p = 2) \/ 2 * r0 + 1 \in {p, p * p}, LAMBDA short :
    Local(IF short /\ q % 2 = 1 THEN r0 + 1 ELSE r0, LAMBDA r :
    Local(IF short THEN Pow(p, 2 * r) ELSE Pow(p, 2 * r + 1), LAMBDA modulo :
    Local(IF short THEN Pow(p, 2 * r - q) ELSE Pow(p, 2 * r + 1 - q), LAMBDA div :
    Local(UpFactorialLoop(1, 1, 1, u, r, p, modulo), LAMBDA prod1 :
    Local(IF p = 2 /\ UpFactorialSm(u, r) % 2 = 1 THEN -prod1 ELSE prod1, LAMBDA prod :
        (prod % (modulo \div div)) % modulo)))))))

RECURSIVE AjMul(_, _, _, _, _)
\* up_plus_v_binom: for i in range(1, q): if i != j: aj *= u - i
AjMul(aj0, i, u, j, q) ==
    Local(aj0, LAMBDA aj :
        IF i >= q THEN aj
        ELSE AjMul(IF i # j THEN aj * (u - i) ELSE aj, i + 1, u, j, q))

RECURSIVE AjDiv(_, _, _, _)
\* up_plus_v_binom: for i in range(1, q): if i != j: aj //= j - i
AjDiv(aj0, i, j, q) ==
    Local(aj0, LAMBDA aj :
        IF i >= q THEN aj
        ELSE AjDiv(IF i # j THEN aj \div (j - i) ELSE aj, i + 1, j, q))

RECURSIVE UpPlusVLoop(_, _, _, _, _, _, _, _)
\* up_plus_v_binom: for j in range(1, q)
UpPlusVLoop(j, prod0, div, u, v, p, q, modulo) ==
    IF j >= q THEN prod0
    ELSE Local(MulRange(div, j * p + 1, j * p + v + 1, modulo), LAMBDA b :
         Local(AjDiv(AjMul(u, 1, u, j, q), 1, j, q) \div j, LAMBDA aj :
             UpPlusVLoop(j + 1, (prod0 * PyPow(b, aj, modulo)) % modulo,
                         div, u, v, p, q, modulo)))

\* up_plus_v_binom(u, v): binomial(u*p + v, v)_p modulo p**q
up_plus_v_binom(u, v, p, q, modulo) ==
    Local(Invert(MulRange(1, 1, v + 1, modulo), modulo), LAMBDA div :
        UpPlusVLoop(1, 1, div, u, v, p, q, modulo))

\* factorial(v): v! modulo p**q, read from the list factorials
factorial(v, modulo) == MulRange(1, 1, v + 1, modulo)

\* faulty variant: binomial(u*p + v, v)_p is left out of the product
factorial_p_short(n, p, q, modulo) ==
    Local(n \div p, LAMBDA u : Local(n % p, LAMBDA v :
        (factorial(v, modulo) * up_factorial(u, p, q)) % modulo))

\* factorial_p(n): n!_p modulo p**q
factorial_p(n, p, q, modulo) ==
    Local(n \div p, LAMBDA u : Local(n % p, LAMBDA v :
        (factorial(v, modulo) * up_factorial(u, p, q) * up_plus_v_binom(u, v, p, q, modulo))
            % modulo))

RECURSIVE BinomLoop(_, _, _, _, _, _, _, _, _, _, _)
\* _binomial_mod_prime_power: while Nj; the local variables at the end
BinomLoop(Nj, Mj, Rj, carry0, e0, eq_1, j, prod0, p, q, modulo) ==
    IF Nj = 0 THEN [e0 |-> e0, eq_1 |-> eq_1, prod |-> prod0]
    ELSE Local(factorial_p(Nj % modulo, p, q, modulo), LAMBDA numerator :
         Local((factorial_p(Mj % modulo, p, q, modulo)
                    * factorial_p(Rj % modulo, p, q, modulo)) % modulo, LAMBDA denominator :
         Local(((Mj % p) + (Rj % p) + carry0) \div p, LAMBDA carry :
             BinomLoop(Nj \div p, Mj \div p, Rj \div p, carry, e0 + carry,
                       IF j >= q - 1 THEN eq_1 + carry ELSE eq_1, j + 1,
                       (prod0 * numerator * Invert(denominator, modulo)) % modulo,
                       p, q, modulo))))

\* the local variables of _binomial_mod_prime_power(n, m, p, q) after its loop
BinomLocals(n, m, p, q) == BinomLoop(n, m, n - m, 0, 0, 0, 0, 1, p, q, Pow(p, q))

\* _binomial_mod_prime_power(n, m, p, q)
binomial_mod_prime_power(n, m, p, q) ==
    Local(Pow(p, q), LAMBDA modulo :
    Local(BinomLocals(n, m, p, q), LAMBDA l :
    Local(PyPow(IF p = 2 /\ q >= 3 THEN 1 ELSE -1, l.eq_1, modulo), LAMBDA mul :
        (ModPow(p, l.e0, modulo) * mul * l.prod) % modulo)))

\* binomial_mod(n, m, k)
binomial_mod(n, m, k) ==
    IF k < 1 THEN RValueError
    ELSE IF n < 0 \/ m < 0 \/ m > n THEN RInt(0)
    ELSE Local(Factorint(k), LAMBDA factorisation :
         Local([i \in DOMAIN factorisation |->
                   binomial_mod_prime_power(n, m, factorisation[i][1], factorisation[i][2])],
               LAMBDA residues :
             RInt(Crt([i \in DOMAIN factorisation |->
                          Pow(factorisation[i][1], factorisation[i][2])], residues))))

(***************************************************************************)
(* State machine.                                                          *)
(***************************************************************************)
NoCall == [fn |-> "none", a |-> 0, n |-> 0, p |-> 0, flag |-> FALSE, rnd |-> 0]

\* no discrete logarithm in progress
NoLog == [n |-> 0, a |-> 0, b |-> 0, order |-> 0, given |-> FALSE, retries |-> 0, i |-> 0,
          steps |-> 0, outcome |-> "none"]

Init ==
    /\ call = NoCall
    /\ ret = RNone
    /\ it_state = "none"
    /\ it_rest = <<>>
    /\ it_out = <<>>
    /\ log = NoLog

IterVars == <<it_state, it_rest, it_out>>

Call_n_order ==
    /\ call = NoCall
    /\ \E n \in 0..MaxN : \E a \in (-2)..(n + 2) :
        /\ call' = [fn |-> "n_order", a |-> a, n |-> n, p |-> 0, flag |-> FALSE, rnd |-> 0,
                    work |-> n_order_work(a, n)]
        /\ ret' = n_order(a, n)
        /\ UNCHANGED <<IterVars, log>>

Call_is_primitive_root ==
    /\ call = NoCall
    /\ \E p \in 0..MaxN : \E a \in (-2)..(p + 2) :
        /\ call' = [fn |-> "is_primitive_root", a |-> a, n |-> 0, p |-> p, flag |-> FALSE,
                    rnd |-> 0, work |-> is_primitive_root_work(a, p)]
        /\ ret' = is_primitive_root(a, p)
        /\ UNCHANGED <<IterVars, log>>

Call_primitive_root ==
    /\ call = NoCall
    /\ \E p \in 0..MaxN : \E smallest \in BOOLEAN :
        /\ call' = [fn |-> "primitive_root", a |-> 0, n |-> 0, p |-> p, flag |-> smallest,
                    rnd |-> 0, work |-> primitive_root_work(p, smallest)]
        /\ ret' = primitive_root(p, smallest)
        /\ UNCHANGED <<IterVars, log>>

\* the call has returned (or raised) and the caller is ready for the next one
Return ==
    /\ call # NoCall
    /\ call' = NoCall
    /\ ret' = RNone
    /\ UNCHANGED <<IterVars, log>>

NextOrder == Call_n_order \/ Call_is_primitive_root \/ Call_primitive_root \/ Return

SpecOrder == Init /\ [][NextOrder]_vars

\* whether a call on modulus p reaches the random nonresidue search
UsesTonelli(p) == \E q \in PrimeDivisors(p) : q % 8 = 1

\* the draws of the random search that make a difference for the modulus p
Draws(p) == IF UsesTonelli(p) THEN 0..MaxRnd ELSE {0}

Call_sqrt_mod ==
    /\ call = NoCall
    /\ it_state = "none"
    /\ \E p \in 1..MaxMod : \E a \in (-2)..(p + 1) : \E all_roots \in BOOLEAN :
      \E rnd \in Draws(p) :
        /\ call' = [fn |-> "sqrt_mod", a |-> a, n |-> 0, p |-> p, flag |-> all_roots,
                    rnd |-> rnd]
        /\ ret' = sqrt_mod(a, p, all_roots, rnd)
        /\ UNCHANGED <<IterVars, log>>

\* it = sqrt_mod_iter(a, p): the generator is created; it_rest holds what it
\* will yield, in order
IterStart ==
    /\ call = NoCall
    /\ it_state = "none"
    /\ \E p \in 1..MaxMod : \E a \in (-2)..(p + 1) : \E rnd \in Draws(p) :
        /\ call' = [fn |-> "sqrt_mod_iter", a |-> a, n |-> 0, p |-> p, flag |-> FALSE,
                    rnd |-> rnd]
        /\ ret' = RNone
        /\ it_state' = "running"
        /\ it_rest' = sqrt_mod_iter(a, p, rnd)
        /\ it_out' = <<>>
        /\ UNCHANGED log

\* next(it): the next value is yielded, or StopIteration ends the generator
IterNext ==
    /\ it_state = "running"
    /\ \/ /\ it_rest # <<>>
          /\ ret' = RInt(Head(it_rest))
          /\ it_out' = Append(it_out, Head(it_rest))
          /\ it_rest' = Tail(it_rest)
          /\ it_state' = "running"
       \/ /\ it_rest = <<>>
          /\ ret' = RNone
          /\ it_state' = "exhausted"
          /\ UNCHANGED <<it_rest, it_out>>
    /\ UNCHANGED <<call, log>>

\* the consumed generator is dropped
IterDrop ==
    /\ it_state = "exhausted"
    /\ it_state' = "none"
    /\ it_rest' = <<>>
    /\ it_out' = <<>>
    /\ UNCHANGED log
    /\ call' = NoCall
    /\ ret' = RNone

ReturnSqrt ==
    /\ call.fn = "sqrt_mod"
    /\ call' = NoCall
    /\ ret' = RNone
    /\ UNCHANGED <<IterVars, log>>

NextSqrt == Call_sqrt_mod \/ ReturnSqrt \/ IterStart \/ IterNext \/ IterDrop

SpecSqrt == Init /\ [][NextSqrt]_vars

Call_nthroot_mod ==
    /\ call = NoCall
    /\ \E p \in 2..MaxRootMod : \E n \in 1..MaxExp : \E a \in (-2)..(p + 1) :
      \E all_roots \in BOOLEAN : \E rnd \in Draws(p) :
        /\ call' = [fn |-> "nthroot_mod", a |-> a, n |-> n, p |-> p, flag |-> all_roots,
                    rnd |-> rnd]
        /\ ret' = nthroot_mod(a, n, p, all_roots, rnd)
        /\ UNCHANGED <<IterVars, log>>

Call_is_quad_residue ==
    /\ call = NoCall
    /\ \E p \in (-1)..MaxMod : \E a \in (-3)..(p + 2) : \E rnd \in Draws(p) :
        /\ call' = [fn |-> "is_quad_residue", a |-> a, n |-> 2, p |-> p, flag |-> FALSE,
                    rnd |-> rnd]
        /\ ret' = is_quad_residue(a, p, rnd)
        /\ UNCHANGED <<IterVars, log>>

Call_is_nthpow_residue ==
    /\ call = NoCall
    /\ \E m \in (-1)..MaxMod : \E n \in (-1)..MaxExp : \E a \in (-2)..(m + 1) :
      \E rnd \in Draws(m) :
        /\ call' = [fn |-> "is_nthpow_residue", a |-> a, n |-> n, p |-> m, flag |-> FALSE,
                    rnd |-> rnd]
        /\ ret' = is_nthpow_residue(a, n, m, rnd)
        /\ UNCHANGED <<IterVars, log>>

NextRoot ==
    Call_nthroot_mod \/ Call_is_quad_residue \/ Call_is_nthpow_residue \/ Return

SpecRoot == Init /\ [][NextRoot]_vars

(***************************************************************************)
(* _sqrt_mod_prime_power followed through its loops: call holds the        *)
(* arguments, the position pc and the local variables of the call.         *)
(***************************************************************************)
\* the frame of _sqrt_mod_prime_power(a0, p, k) at its entry: pk = p**k and
\* a = a0 % pk are set; d will hold the last value drawn by the random
\* search of _sqrt_mod_tonelli_shanks
PowerFrame(a0, p, k) ==
    [fn |-> "_sqrt_mod_prime_power", a0 |-> a0, p |-> p, k |-> k, d |-> 0,
     pk |-> Pow(p, k), a |-> a0 % Pow(p, k), pc |-> "entry",
     r |-> 0, nx |-> 0, res |-> 0, px |-> 0, rounds |-> 0, m |-> 0]

\* the prime powers p**k up to MaxPowerMod as pairs (p, k)
PowerMods ==
    {Factorint(m)[1] : m \in {x \in 2..MaxPowerMod : Cardinality(PrimeDivisors(x)) = 1}}

\* _sqrt_mod_prime_power(a0, p, k) is called with a0 % p != 0
Call_sqrt_mod_prime_power ==
    /\ call = NoCall
    /\ \E pk \in PowerMods : \E a0 \in (-2)..(Pow(pk[1], pk[2]) + 1) :
        /\ a0 % pk[1] # 0
        /\ call' = PowerFrame(a0, pk[1], pk[2])
        /\ ret' = RPending
        /\ UNCHANGED <<IterVars, log>>

\* if p == 2: return None, return the odd residues, or enter the lifting
\* loop with r = 1
PowerTwo ==
    /\ call.fn = "_sqrt_mod_prime_power" /\ call.pc = "entry" /\ call.p = 2
    /\ IF call.a % 8 # 1 THEN call' = [call EXCEPT !.pc = "done"] /\ ret' = RNone
       ELSE IF call.k <= 3
       THEN call' = [call EXCEPT !.pc = "done"] /\ ret' = RList(Stepped(1, call.pk, 2))
       ELSE call' = [call EXCEPT !.pc = "lift", !.r = 1, !.nx = 3] /\ ret' = RPending
    /\ UNCHANGED <<IterVars, log>>

\* one pass of for nx in range(3, k)
LiftPass ==
    /\ call.fn = "_sqrt_mod_prime_power" /\ call.pc = "lift" /\ call.nx < call.k
    /\ call' = [call EXCEPT !.r = Lift2(call.r, call.a, call.nx, call.nx + 1),
                            !.nx = @ + 1]
    /\ ret' = RPending
    /\ UNCHANGED <<IterVars, log>>

\* h = 1 << (k - 1); return sorted([r, pk - r, (r + h) % pk, -(r + h) % pk])
LiftReturn ==
    /\ call.fn = "_sqrt_mod_prime_power" /\ call.pc = "lift" /\ call.nx >= call.k
    /\ call' = [call EXCEPT !.pc = "done"]
    /\ \E h \in {Pow(2, call.k - 1)} :
          ret' = RList(Sorted(<<call.r, call.pk - call.r, (call.r + h) % call.pk,
                                (-(call.r + h)) % call.pk>>))
    /\ UNCHANGED <<IterVars, log>>

\* odd p: return None if jacobi(a, p) != 1; else the root modulo p is
\* computed, for p = 1 (mod 8) after the random search of
\* _sqrt_mod_tonelli_shanks
PowerBase ==
    /\ call.fn = "_sqrt_mod_prime_power" /\ call.pc = "entry" /\ call.p # 2
    /\ IF Jacobi(call.a, call.p) # 1 THEN call' = [call EXCEPT !.pc = "done"] /\ ret' = RNone
       ELSE IF call.p % 8 = 1 THEN call' = [call EXCEPT !.pc = "search"] /\ ret' = RPending
       ELSE /\ call' = [call EXCEPT
                           !.pc = "base",
                           !.res = BaseRoot(call.a, call.p, 0),
                           !.px = call.p,
                           !.rounds = IF call.k > 1 THEN BitLength(call.k) - 1 ELSE 0]
            /\ ret' = RPending
    /\ UNCHANGED <<IterVars, log>>

\* while 1: d = randint(2, p - 1); r = jacobi(d, p); if r == -1: break
\* one pass: after the break the rest of _sqrt_mod_tonelli_shanks gives the
\* root modulo p; m is the exponent its correction loop ends with
TonelliSearch ==
    /\ call.fn = "_sqrt_mod_prime_power" /\ call.pc = "search"
    /\ \E d \in 2..(call.p - 1) :
          IF Jacobi(d, call.p) = -1
          THEN call' = [call EXCEPT
                           !.pc = "base",
                           !.d = d,
                           !.res = sqrt_mod_tonelli_shanks(call.a, call.p, d),
                           !.m = TonelliCorrection(call.a, call.p, d),
                           !.px = call.p,
                           !.rounds = IF call.k > 1 THEN BitLength(call.k) - 1 ELSE 0]
          ELSE call' = [call EXCEPT !.d = d]
    /\ ret' = RPending
    /\ UNCHANGED <<IterVars, log>>

\* one pass of for _ in range(k.bit_length() - 1)
NewtonPass ==
    /\ call.fn = "_sqrt_mod_prime_power" /\ call.pc = "base" /\ call.rounds > 0
    /\ call' = [call EXCEPT !.px = @ * @,
                            !.res = NewtonStep(call.res, call.a, call.px * call.px),
                            !.rounds = @ - 1]
    /\ ret' = RPending
    /\ UNCHANGED <<IterVars, log>>

\* if k & (k - 1): the step modulo pk; return sorted([res, pk - res])
PowerReturn ==
    /\ call.fn = "_sqrt_mod_prime_power" /\ call.pc = "base" /\ call.rounds = 0
    /\ \E res \in {IF call.k > 1 /\ Pow(2, BitLength(call.k) - 1) # call.k
                   THEN NewtonStep(call.res, call.a, call.pk) ELSE call.res} :
          /\ call' = [call EXCEPT !.pc = "done", !.res = res, !.px = call.pk]
          /\ ret' = RList(RootPair(res, call.pk))
    /\ UNCHANGED <<IterVars, log>>

\* the caller takes the result
PowerDone ==
    /\ call.fn = "_sqrt_mod_prime_power" /\ call.pc = "done"
    /\ call' = NoCall
    /\ ret' = RNone
    /\ UNCHANGED <<IterVars, log>>

NextPower ==
    \/ Call_sqrt_mod_prime_power
    \/ PowerTwo
    \/ LiftPass
    \/ LiftReturn
    \/ PowerBase
    \/ TonelliSearch
    \/ NewtonPass
    \/ PowerReturn
    \/ PowerDone

SpecPower == Init /\ [][NextPower]_vars

\* the square root functions and _sqrt_mod_prime_power, which makes the
\* random search for them
NextDraws == NextSqrt \/ NextPower

SpecDraws == Init /\ [][NextDraws]_vars

(***************************************************************************)
(* nthroot_mod followed through its reduction loop: call holds the         *)
(* arguments, the position pc and the local variables a, pa, b, pb.        *)
(***************************************************************************)
\* the (p, n, a) with which nthroot_mod(a, n, p, all_roots) reaches the loop:
\* n != 2, p is prime, a % p != 0, a is an n-th power residue and n does
\* not divide p - 1
ReduceInputs ==
    {x \in (2..MaxRootMod) \X (1..MaxExp) \X ((-2)..(MaxRootMod + 1)) :
        /\ x[3] <= x[1] + 1
        /\ x[2] # 2 /\ IsPrime(x[1]) /\ x[3] % x[1] # 0 /\ (x[1] - 1) % x[2] # 0
        /\ is_nthpow_residue(x[3] % x[1], x[2], x[1], 0) = RBool(TRUE)}

\* nthroot_mod(a, n, p, all_roots) enters the loop: a0 is a % p, and
\* a, pa, b, pb are swapped if pa < pb
Call_nthroot_mod_reduce ==
    /\ call = NoCall
    /\ \E x \in ReduceInputs : \E all_roots \in BOOLEAN : \E rnd \in Draws(x[1]) :
        /\ call' = [fn |-> "nthroot_mod", a0 |-> x[3] % x[1], n |-> x[2], p |-> x[1],
                    flag |-> all_roots, rnd |-> rnd, pc |-> "while",
                    a |-> IF x[2] < x[1] - 1 THEN 1 ELSE x[3] % x[1],
                    pa |-> IF x[2] < x[1] - 1 THEN x[1] - 1 ELSE x[2],
                    b |-> IF x[2] < x[1] - 1 THEN x[3] % x[1] ELSE 1,
                    pb |-> IF x[2] < x[1] - 1 THEN x[2] ELSE x[1] - 1]
        /\ ret' = RPending
        /\ UNCHANGED <<IterVars, log>>

\* one pass of while pb
ReducePass ==
    /\ call.fn = "nthroot_mod" /\ call.pc = "while" /\ call.pb # 0
    /\ call' = [call EXCEPT !.pa = ReduceExponents(call.pa, call.pb)[1],
                            !.pb = ReduceExponents(call.pa, call.pb)[2],
                            !.a = call.b,
                            !.b = ReduceValue(call.a, call.b, call.pa, call.pb, call.p)]
    /\ ret' = RPending
    /\ UNCHANGED <<IterVars, log>>

\* pb == 0: the root is a, or comes from sqrt_mod or from _nthroot_mod1
ReduceExit ==
    /\ call.fn = "nthroot_mod" /\ call.pc = "while" /\ call.pb = 0
    /\ call' = [call EXCEPT !.pc = "done"]
    /\ ret' = ReduceResult(call.a, call.pa, call.p, call.flag, call.rnd)
    /\ UNCHANGED <<IterVars, log>>

\* the caller takes the result
ReduceDone ==
    /\ call.fn = "nthroot_mod" /\ call.pc = "done"
    /\ call' = NoCall
    /\ ret' = RNone
    /\ UNCHANGED <<IterVars, log>>

NextReduce == Call_nthroot_mod_reduce \/ ReducePass \/ ReduceExit \/ ReduceDone

SpecReduce == Init /\ [][NextReduce]_vars

(***************************************************************************)
(* The generator _product followed from one yield to the next: call holds  *)
(* the iterables, the local variables and the combinations yielded so far. *)
(***************************************************************************)
\* the iterables given to _product: up to MaxIters lists of 1 to MaxIterLen
\* values; the value at place j of the iterable k is 10*k + j
ProductInputs ==
    UNION {[1..m -> {[j \in 1..len |-> j] : len \in 1..MaxIterLen}] : m \in 0..MaxIters}

\* gen = _product(*iters): the generator is created, nothing has run yet
Call_product ==
    /\ call = NoCall
    /\ \E lens \in ProductInputs :
        call' = [fn |-> "_product",
                 iters |-> [k \in DOMAIN lens |-> [j \in DOMAIN lens[k] |-> 10 * k + j]],
                 inf_iters |-> [k \in DOMAIN lens |->
                                  CycleOf([j \in DOMAIN lens[k] |-> 10 * k + j])],
                 cur_val |-> [k \in DOMAIN lens |-> 0],
                 first_v |-> TRUE, pc |-> "created", yields |-> <<>>]
    /\ ret' = RPending
    /\ UNCHANGED <<IterVars, log>>

\* next(gen): one pass of "while True" up to the yield, or up to the break
\* that ends the generator
ProductNext ==
    /\ call.fn = "_product" /\ call.pc \in {"created", "yielded"}
    /\ \E adv \in {ProductAdvance(call.inf_iters, call.cur_val, Len(call.iters), 0)} :
          IF adv.p = 0 /\ adv.i = 0 /\ ~call.first_v
          THEN /\ call' = [call EXCEPT !.inf_iters = adv.inf_iters, !.cur_val = adv.cur_val,
                                       !.pc = "ended"]
               /\ ret' = RNone
          ELSE /\ call' = [call EXCEPT !.inf_iters = adv.inf_iters, !.cur_val = adv.cur_val,
                                       !.first_v = @ /\ ~(adv.p = 0 /\ adv.i = 0),
                                       !.pc = "yielded",
                                       !.yields = Append(@, adv.cur_val)]
               /\ ret' = RList(adv.cur_val)
    /\ UNCHANGED <<IterVars, log>>

\* the generator that has ended is dropped
ProductDrop ==
    /\ call.fn = "_product" /\ call.pc = "ended"
    /\ call' = NoCall
    /\ ret' = RNone
    /\ UNCHANGED <<IterVars, log>>

NextProduct == Call_product \/ ProductNext \/ ProductDrop

SpecProduct == Init /\ [][NextProduct]_vars

\* the loop "for vx in _product(*v)" of sqrt_mod_iter asks for the next
\* combination until the generator ends
SpecProductFair == SpecProduct /\ WF_vars(ProductNext)

(***************************************************************************)
(* Calls of the discrete logarithm functions.                              *)
(***************************************************************************)
\* n_order(b, n) as the callers of the discrete logarithm use it, 0 when it
\* raises ValueError
OrderOf(b, n) ==
    Local(n_order(b, n), LAMBDA o : IF o.kind = "int" THEN o.val ELSE 0)

\* an integer result, or the ValueError raised
LogResult(k) == IF k = Raised THEN RValueError ELSE RInt(k)

\* pairs (n, b) with a group order of at least 1000: composite orders 1008
\* and 2026, prime order 1013
LargeInputs == {<<1009, 11>>, <<2027, 2>>, <<2027, 3>>, <<2027, 4>>}

\* the (n, b, a) of the calls: every a and b for a small modulus, small a for
\* the large ones
LogInputs ==
    {<<n, b, a>> : n \in 2..MaxLogMod, b \in 0..MaxLogMod, a \in (-1)..MaxLogMod}
    \cup {<<nb[1], nb[2], a>> : nb \in LargeInputs, a \in 0..MaxLargeArg}

\* the frame of a call with its arguments; given tells that order was passed
\* (then it is the order of b), otherwise the function computes it
LogFrame(n, a, b, given) ==
    [NoLog EXCEPT !.n = n, !.a = a, !.b = b, !.order = OrderOf(b, n), !.given = given,
                  !.outcome = "done"]

LogCall(fn) == [NoCall EXCEPT !.fn = fn]

\* discrete_log(n, a, b) and discrete_log(n, a, b, order)
Call_discrete_log ==
    /\ call = NoCall
    /\ \E t \in LogInputs : \E given \in BOOLEAN :
        /\ t[2] <= t[1] /\ t[3] <= t[1]
        /\ given => OrderOf(t[2], t[1]) > 0
        /\ call' = [fn |-> "discrete_log",
                    calls |-> Local(OrderOf(t[2], t[1]), LAMBDA order :
                                  IF order = 0 THEN <<>>
                                  ELSE discrete_log_calls(t[1], t[3], t[2], order,
                                                          IsPrime(order)))]
        /\ log' = LogFrame(t[1], t[3], t[2], given)
        /\ ret' = LogResult(IF given
                            THEN Local(OrderOf(t[2], t[1]), LAMBDA order :
                                     discrete_log_order(t[1], t[3], t[2], order,
                                                        IsPrime(order)))
                            ELSE discrete_log(t[1], t[3], t[2]))
        /\ UNCHANGED IterVars

\* _discrete_log_trial_mul(n, a, b) with order = n, and with the order of b
Call_discrete_log_trial_mul ==
    /\ call = NoCall
    /\ \E n \in 2..MaxLogMod : \E b \in 0..n : \E a \in (-1)..n : \E given \in BOOLEAN :
        /\ given => OrderOf(b, n) > 0
        /\ call' = LogCall("discrete_log_trial_mul")
        /\ log' = LogFrame(n, a, b, given)
        /\ ret' = LogResult(discrete_log_trial_mul(n, a, b,
                                                   IF given THEN OrderOf(b, n) ELSE n))
        /\ UNCHANGED IterVars

\* _discrete_log_shanks_steps(n, a, b) and with the order of b; without it
\* n_order(b, n) is called, which raises ValueError unless gcd(b, n) = 1
Call_discrete_log_shanks_steps ==
    /\ call = NoCall
    /\ \E n \in 2..MaxLogMod : \E b \in 0..n : \E a \in (-1)..n : \E given \in BOOLEAN :
        /\ given => OrderOf(b, n) > 0
        /\ call' = LogCall("discrete_log_shanks_steps")
        /\ log' = LogFrame(n, a, b, given)
        /\ ret' = Local(OrderOf(b, n), LAMBDA order :
                      IF order = 0 THEN RValueError
                      ELSE LogResult(discrete_log_shanks_steps(n, a, b, order)))
        /\ UNCHANGED IterVars

\* _discrete_log_pohlig_hellman(n, a, b) and with the order of b
Call_discrete_log_pohlig_hellman ==
    /\ call = NoCall
    /\ \E n \in 2..MaxLogMod : \E b \in 0..n : \E a \in (-1)..n : \E given \in BOOLEAN :
        /\ given => OrderOf(b, n) > 0
        /\ call' = [fn |-> "discrete_log_pohlig_hellman",
                    calls |-> Local(OrderOf(b, n), LAMBDA order :
                                  IF order = 0 THEN <<>>
                                  ELSE pohlig_hellman_calls(n, a, b, order, 1))]
        /\ log' = LogFrame(n, a, b, given)
        /\ ret' = Local(OrderOf(b, n), LAMBDA order :
                      IF order = 0 THEN RValueError
                      ELSE LogResult(discrete_log_pohlig_hellman(n, a, b, order)))
        /\ UNCHANGED IterVars

\* _discrete_log_pollard_rho(n, a, b, order, retries) is entered with the
\* order of b: a and b are reduced, no pass of the loop has been made
Call_discrete_log_pollard_rho ==
    /\ call = NoCall
    /\ \E n \in 2..MaxRhoMod : \E b \in 1..n : \E a \in (-1)..n :
      \E retries \in 1..MaxRetries :
        /\ OrderOf(b, n) > 0
        /\ call' = LogCall("discrete_log_pollard_rho")
        /\ log' = [NoLog EXCEPT !.n = n, !.a = a % n, !.b = b % n,
                                !.order = OrderOf(b, n), !.given = TRUE,
                                !.retries = retries]
        /\ ret' = RNone
        /\ UNCHANGED IterVars

\* one pass of for i in range(retries): aa and ba are drawn by
\* randint(1, order - 1), which raises ValueError on the empty range of
\* order = 1; the walk then ends in a returned e or in a failed attempt
RhoPass ==
    /\ call.fn = "discrete_log_pollard_rho"
    /\ log.outcome \notin {"found", "raised"}
    /\ log.i < log.retries
    /\ IF log.order - 1 < 1
       THEN /\ log' = [log EXCEPT !.i = @ + 1, !.steps = 0, !.outcome = "raised"]
            /\ ret' = RValueError
       ELSE \E aa \in 1..(log.order - 1) : \E ba \in 1..(log.order - 1) :
              \E att \in {RhoAttempt(log.n, log.a, log.b, log.order, aa, ba)} :
                /\ log' = [log EXCEPT !.i = @ + 1, !.steps = att.steps,
                                      !.outcome = att.outcome]
                /\ ret' = IF att.outcome = "found" THEN RInt(att.e) ELSE RNone
    /\ UNCHANGED <<call, IterVars>>

\* the loop is over: raise ValueError("Pollard's Rho failed to find logarithm")
RhoExhausted ==
    /\ call.fn = "discrete_log_pollard_rho"
    /\ log.outcome \notin {"found", "raised"}
    /\ log.i >= log.retries
    /\ log' = [log EXCEPT !.outcome = "raised"]
    /\ ret' = RValueError
    /\ UNCHANGED <<call, IterVars>>

\* the call is over, by a return or by a raise
ReturnLog ==
    /\ log.outcome \in {"done", "found", "raised"}
    /\ call' = NoCall
    /\ ret' = RNone
    /\ log' = NoLog
    /\ UNCHANGED IterVars

NextLog ==
    \/ Call_discrete_log
    \/ Call_discrete_log_trial_mul
    \/ Call_discrete_log_shanks_steps
    \/ Call_discrete_log_pohlig_hellman
    \/ Call_discrete_log_pollard_rho
    \/ RhoPass
    \/ RhoExhausted
    \/ ReturnLog

SpecLog == Init /\ [][NextLog]_vars

\* orders from 2**31 on, around 10**12, as <<hi, lo>>: the functions
\* cannot be run on them with the integers at hand
HugeOrders ==
    {<<hi, lo>> : hi \in {2148, Limb - 1, Limb, Limb + 1}, lo \in {0, 999, 1000, Limb - 1}}

\* discrete_log(n, a, b, order, prime_order) with a huge order: the call is
\* followed up to the function it is handed to
Call_discrete_log_huge ==
    /\ call = NoCall
    /\ \E n \in 2..MaxRhoMod : \E a \in 1..2 : \E order \in HugeOrders :
      \E prime_order \in BOOLEAN :
        /\ call' = [fn |-> "discrete_log",
                    calls |-> <<LogEntry("discrete_log", 1, order, prime_order),
                                LogEntry(discrete_log_select(order, prime_order), 1, order,
                                         prime_order)>>]
        /\ log' = [NoLog EXCEPT !.n = n, !.a = a, !.b = 1, !.given = TRUE,
                                !.outcome = "entered"]
        /\ ret' = RPending
        /\ UNCHANGED IterVars

\* the function entered runs to its end, which is not followed
LeaveLog ==
    /\ log.outcome = "entered"
    /\ call' = NoCall
    /\ ret' = RNone
    /\ log' = NoLog
    /\ UNCHANGED IterVars

NextDispatch ==
    \/ Call_discrete_log
    \/ Call_discrete_log_pohlig_hellman
    \/ Call_discrete_log_huge
    \/ LeaveLog
    \/ ReturnLog

SpecDispatch == Init /\ [][NextDispatch]_vars

(***************************************************************************)
(* Calls of the congruence solver.                                         *)
(***************************************************************************)
\* where the list of linear_congruence may start: only the path a = 0 (mod p)
\* returns that list as it is
QuadRots(a, p) == IF a % p = 0 THEN 0..(p - 1) ELSE {0}

\* the draws that make a difference: sqrt_mod is called on p or on 4*a*p
QuadDraws(a, p) ==
    IF a % p = 0 \/ p = 2 THEN {0}
    ELSE IF IsPrime(p) THEN Draws(p)
    ELSE Draws(4 * (a % p) * p)

Call_quadratic_congruence ==
    /\ call = NoCall
    /\ \E p \in 1..MaxQuadMod : \E a \in (-1)..p : \E b \in (-1)..p : \E c \in (-1)..p :
      \E rot \in QuadRots(a, p) : \E rnd \in QuadDraws(a, p) :
        /\ call' = [fn |-> "quadratic_congruence", a |-> a, b |-> b, c |-> c, p |-> p,
                    rot |-> rot, rnd |-> rnd]
        /\ ret' = RList(quadratic_congruence(a, b, c, p, rot, rnd))
        /\ UNCHANGED <<IterVars, log>>

\* the coefficient lists Poly(expr).all_coeffs() gives for a univariate expr:
\* at least two coefficients, the leading one not 0
CoeffLists(m) ==
    UNION {{s \in [1..rank -> (-1)..m] : s[1] # 0} : rank \in 2..MaxRank}

PolyRots(coeffs, m) ==
    IF Len(coeffs) = 2 THEN 0..(m - 1)
    ELSE IF Len(coeffs) = 3 THEN QuadRots(coeffs[1], m)
    ELSE {0}

PolyDraws(coeffs, m) ==
    IF Len(coeffs) = 2 THEN {0}
    ELSE IF Len(coeffs) = 3 THEN QuadDraws(coeffs[1], m)
    ELSE Draws(m)

Call_polynomial_congruence ==
    /\ call = NoCall
    /\ \E m \in 1..MaxPolyMod : \E coeffs \in CoeffLists(m) :
      \E rot \in PolyRots(coeffs, m) : \E rnd \in PolyDraws(coeffs, m) :
        /\ call' = [fn |-> "polynomial_congruence", coefficients |-> coeffs, m |-> m,
                    rot |-> rot, rnd |-> rnd]
        /\ ret' = RList(polynomial_congruence(coeffs, m, rot, rnd))
        /\ UNCHANGED <<IterVars, log>>

NextCongruence == Call_quadratic_congruence \/ Call_polynomial_congruence \/ Return

SpecCongruence == Init /\ [][NextCongruence]_vars

(***************************************************************************)
(* Calls of the binomial functions.                                        *)
(***************************************************************************)
Call_binomial_mod ==
    /\ call = NoCall
    /\ \E n \in (-2)..MaxBinomN : \E m \in (-2)..(n + 2) : \E k \in (-1)..MaxBinomK :
        /\ call' = [fn |-> "binomial_mod", n |-> n, m |-> m, k |-> k]
        /\ ret' = binomial_mod(n, m, k)
        /\ UNCHANGED <<IterVars, log>>

\* the pairs (p, e) of factorisation.items() for the moduli k of the model
PrimePowers == UNION {Range(Factorint(k)) : k \in 1..MaxBinomK}

\* the calls binomial_mod makes: p**q a prime power, 0 <= m <= n; e0 is the
\* local variable of the call when it returns
Call_binomial_mod_prime_power ==
    /\ call = NoCall
    /\ \E pq \in PrimePowers : \E n \in 0..MaxBinomN : \E m \in 0..n :
        /\ call' = [fn |-> "_binomial_mod_prime_power", n |-> n, m |-> m, p |-> pq[1],
                    q |-> pq[2], e0 |-> BinomLocals(n, m, pq[1], pq[2]).e0]
        /\ ret' = RInt(binomial_mod_prime_power(n, m, pq[1], pq[2]))
        /\ UNCHANGED <<IterVars, log>>

NextBinomial == Call_binomial_mod \/ Call_binomial_mod_prime_power \/ Return

SpecBinomial == Init /\ [][NextBinomial]_vars

(***************************************************************************)
(* Reference notions the claims are stated with.                           *)
(***************************************************************************)
Totient(n) == Cardinality({i \in 1..n : Gcd(i, n) = 1})

RECURSIVE OrderFrom(_, _, _, _)
\* the least k' >= k with x * a**(k' - k) = 1 (mod n)
OrderFrom(x, a, k, n) == IF x = 1 % n THEN k ELSE OrderFrom((x * a) % n, a, k + 1, n)

\* the multiplicative order of a modulo n by exhaustive search (gcd(a, n) = 1)
OrderRef(a, n) == OrderFrom(a % n, a % n, 1, n)

PrimRoots(n) == {g \in 1..n : Gcd(g, n) = 1 /\ OrderRef(g, n) = Totient(n)}

\* the roots of x**2 = a (mod p) in [0, p)
SqrtRoots(a, p) == {x \in 0..(p - 1) : (x * x - a) % p = 0}

RECURSIVE PowerResidue(_, _, _)
\* x**n modulo p by n multiplications
PowerResidue(x, n, p) == IF n = 0 THEN 1 % p ELSE (x * PowerResidue(x, n - 1, p)) % p

\* the roots of x**n = a (mod p) in [0, p)
NthRoots(a, n, p) == {x \in 0..(p - 1) : (PowerResidue(x, n, p) - a) % p = 0}

\* each value of the list is larger than the one before it
Ascending(s) == \A i \in DOMAIN s : i > 1 => s[i - 1] < s[i]

\* n is 2, 4, q**e or 2*q**e with q an odd prime
HasRootForm(n) ==
    \/ n \in {2, 4}
    \/ \E q \in PrimeDivisors(n) :
          /\ q # 2
          /\ \/ n = Pow(q, Multiplicity(q, n))
             \/ n = 2 * Pow(q, Multiplicity(q, n))

(***************************************************************************)
(* Claims on the group order engine and the primitive root finder.         *)
(***************************************************************************)
\* C1: for n > 1 and gcd(a, n) = 1, n_order(a, n) returns the smallest k > 0
\* with a**k = 1 (mod n); k divides totient(n) (n - 1 for prime n), and the
\* candidate the stripping loop starts from is totient(n).
C1_OrderIsLeastExponent ==
    (call.fn = "n_order" /\ call.n > 1 /\ Gcd(call.a % call.n, call.n) = 1) =>
        /\ ret.kind = "int"
        /\ ret.val > 0
        /\ ModPow(call.a, ret.val, call.n) = 1
        /\ \A j \in 1..(ret.val - 1) : ModPow(call.a, j, call.n) # 1
        /\ Totient(call.n) % ret.val = 0
        /\ IsPrime(call.n) => (call.n - 1) % ret.val = 0
        /\ FactorProduct(TotientFactors(<<>>, Factorint(call.n))) = Totient(call.n)
        /\ ret.val = OrderRef(call.a, call.n)

\* C1 witness: a call on a composite modulus where the loop stripped a prime
\* more than once and still left an order above 1
C1_Witness ==
    /\ call.fn = "n_order"
    /\ ret.kind = "int"
    /\ ~IsPrime(call.n)
    /\ ret.val > 1
    /\ ret.val * 4 <= Totient(call.n)

\* C2: for p > 1 and gcd(a, p) = 1, is_primitive_root(a, p) is True exactly
\* when n_order(a, p) = totient(p); it is False for every a when p is not
\* 2, 4, q**e or 2*q**e.
C2_PrimitiveRootIffFullOrder ==
    (call.fn = "is_primitive_root" /\ call.p > 1 /\ Gcd(call.a % call.p, call.p) = 1) =>
        /\ ret.kind = "bool"
        /\ (ret.val = 1) <=> (n_order(call.a, call.p) = RInt(Totient(call.p)))
        /\ ~HasRootForm(call.p) => ret.val = 0

\* C2 witness: True is returned for a modulus 2*q**e with e > 1
C2_Witness ==
    /\ call.fn = "is_primitive_root"
    /\ ret = RBool(TRUE)
    /\ call.p % 2 = 0
    /\ call.p > 4
    /\ ~IsPrime(call.p \div 2)

\* C3: for n >= 2, primitive_root(n, smallest) is None exactly when n is not
\* 2, 4, p**k or 2*p**k, and the two modes agree on this.
C3_NoneIffNoRootForm ==
    (call.fn = "primitive_root" /\ call.p >= 2) =>
        /\ (ret.kind = "None") <=> ~HasRootForm(call.p)
        /\ ret.kind \in {"None", "int"}
        /\ (primitive_root(call.p, ~call.flag).kind = "None") <=> (ret.kind = "None")

\* C3 witness: None from the smallest=True mode for an even n with two prime
\* factors and 4 | n
C3_Witness ==
    /\ call.fn = "primitive_root"
    /\ call.flag
    /\ ret.kind = "None"
    /\ call.p % 4 = 0
    /\ Len(Factorint(call.p)) = 2

C5_AnyRoot ==
    (call.fn = "primitive_root" /\ ~call.flag /\ ret.kind = "int" /\ call.p > 4) =>
        LET f == Factorint(call.p)
            q == f[Len(f)][1]
            e == f[Len(f)][2]
            g0 == Head(primitive_root_prime_iter(q))
            gk == Head(primitive_root_prime_power_iter(q, e))
        IN /\ ret.val \in 1..(call.p - 1)
           /\ Gcd(ret.val, call.p) = 1
           /\ ret.val \in PrimRoots(call.p)
           /\ \A k \in Range(Stepped(0, q * q, q)) :
                  (ModPow(g0 + k, q - 1, q * q) = 1) <=> (k = ExcludedShift(g0, q))
           /\ call.p % 2 = 0 => (ret.val % 2 = 1 /\ ret.val \in {gk, gk + Pow(q, e)})

\* C5 witness: a modulus 2*p**k with k > 1 where the root of p**k was even
C5_Witness ==
    /\ call.fn = "primitive_root"
    /\ ~call.flag
    /\ ret.kind = "int"
    /\ call.p % 2 = 0
    /\ ~IsPrime(call.p \div 2)
    /\ ret.val > call.p \div 2


\* C6: sqrt_mod(a, p, all_roots=True) returns exactly the roots of
\* x**2 = a (mod p) in [0, p) as an ascending list without duplicates, for
\* prime, prime power and composite p and any a; the list is empty when there
\* is no root.
C6_AllRootsExact ==
    (call.fn = "sqrt_mod" /\ call.flag) =>
        /\ ret.kind = "list"
        /\ Ascending(ret.list)
        /\ Range(ret.list) = SqrtRoots(call.a, call.p)

\* a composite modulus with a not coprime to it and at least four roots
C6_Witness ==
    /\ call.fn = "sqrt_mod" /\ call.flag
    /\ ~IsPrime(call.p) /\ Len(Factorint(call.p)) >= 2
    /\ Gcd(call.a % call.p, call.p) > 1
    /\ Len(ret.list) >= 4

\* C7: sqrt_mod(a, p) in single-answer mode returns None exactly when
\* x**2 = a (mod p) has no root, and otherwise a root r with 0 <= r <= p // 2.
C7_SingleRoot ==
    (call.fn = "sqrt_mod" /\ ~call.flag) =>
        /\ (ret = RNone) <=> (SqrtRoots(call.a, call.p) = {})
        /\ ret # RNone =>
              /\ ret.kind = "int"
              /\ 0 <= ret.val /\ ret.val <= call.p \div 2
              /\ ret.val \in SqrtRoots(call.a, call.p)

\* the first value of the iterator lies above p // 2 and is reflected
C7_Witness ==
    /\ call.fn = "sqrt_mod" /\ ~call.flag
    /\ ret.kind = "int"
    /\ sqrt_mod_iter(call.a, call.p, call.rnd)[1] > call.p \div 2
    /\ ret.val = call.p - sqrt_mod_iter(call.a, call.p, call.rnd)[1]

C9_IterAscending ==
    (call.fn = "sqrt_mod_iter") =>
        /\ Ascending(it_out)
        /\ it_state = "exhausted" => Range(it_out) = SqrtRoots(call.a, call.p)

\* C9 as the code has it: sqrt_mod_iter(a, p) yields only roots, no value
\* twice, and by its end each root in [0, p) exactly once; the values are
\* ascending when p is prime.
C9_IterExactlyOnce ==
    (call.fn = "sqrt_mod_iter") =>
        /\ \A i, j \in DOMAIN it_out : i # j => it_out[i] # it_out[j]
        /\ Range(it_out) \subseteq SqrtRoots(call.a, call.p)
        /\ it_state = "exhausted" => Range(it_out) = SqrtRoots(call.a, call.p)
        /\ IsPrime(call.p) => Ascending(it_out)

\* a composite modulus with two prime powers, run to the end, whose roots
\* came out of order
C9_Witness ==
    /\ call.fn = "sqrt_mod_iter"
    /\ it_state = "exhausted"
    /\ Len(Factorint(call.p)) >= 2
    /\ Len(it_out) >= 4
    /\ ~Ascending(it_out)

\* C10: nthroot_mod(a, n, p, all_roots=True) returns exactly the roots of
\* x**n = a (mod p) in [0, p) as an ascending list without duplicates, for
\* every a, n >= 1 and prime or composite p >= 2.
C10_AllNthRootsExact ==
    (call.fn = "nthroot_mod" /\ call.flag) =>
        /\ ret.kind = "list"
        /\ Ascending(ret.list)
        /\ Range(ret.list) = NthRoots(call.a, call.n, call.p)

\* a composite modulus with a prime power whose roots have a vanishing
\* derivative (brute lifting) next to a second prime (recombination), with
\* several roots
C10_Witness ==
    /\ call.fn = "nthroot_mod" /\ call.flag
    /\ call.n > 2
    /\ Len(Factorint(call.p)) >= 2
    /\ \E i \in DOMAIN Factorint(call.p) :
          /\ Factorint(call.p)[i][2] >= 2
          /\ call.n % Factorint(call.p)[i][1] = 0
    /\ Len(ret.list) >= 4

\* C11: with all_roots=False, nthroot_mod(a, n, p) returns the smallest
\* root of x**n = a (mod p) as a single integer whenever a root exists, for
\* every n (n = 2 included), for a = 0 (mod p), and for prime and composite p.
C11_SmallestNthRoot ==
    (/\ call.fn = "nthroot_mod"
     /\ ~call.flag
     /\ NthRoots(call.a, call.n, call.p) # {}) =>
        ret = RInt(Min(NthRoots(call.a, call.n, call.p)))

\* C12: for a, n >= 0 and m >= 1, is_nthpow_residue(a, n, m) is True iff
\* x**n = a (mod m) has a solution (n = 0 with m = 1 and m > 1 included);
\* nthroot_mod on a prime modulus returns None or [] exactly when the test
\* is False.
C12_NthPowResidueIffRoot ==
    /\ (/\ call.fn = "is_nthpow_residue"
        /\ call.n >= 0
        /\ call.p >= 1) =>
            ret = RBool(NthRoots(call.a, call.n, call.p) # {})
    /\ (call.fn = "nthroot_mod" /\ IsPrime(call.p)) =>
            ((ret = RNone \/ ret = RList(<<>>))
                <=> (is_nthpow_residue(call.a, call.n, call.p, call.rnd) = RBool(FALSE)))

\* C13: for p >= 1, is_quad_residue(a, p) is True iff a mod p is a square
\* modulo p, for prime and composite p; p < 1 raises ValueError.
C13_QuadResidueIffSquare ==
    (call.fn = "is_quad_residue") =>
        IF call.p < 1 THEN ret = RValueError
        ELSE ret = RBool(SqrtRoots(call.a, call.p) # {})

\* an odd composite modulus and a non-square with Jacobi symbol 1, rejected
\* by the search for a root
C13_Witness ==
    /\ call.fn = "is_quad_residue"
    /\ call.p > 2 /\ call.p % 2 = 1 /\ ~IsPrime(call.p)
    /\ call.a % call.p >= 2
    /\ Jacobi(call.a % call.p, call.p) = 1
    /\ ret = RBool(FALSE)

\* the exponents k in [0, n) with b**k = a (mod n)
Logs(n, a, b) == {k \in 0..(n - 1) : ModPow(b, k, n) = a % n}

\* the least k >= 1 with b**k = 1 (mod n), for b coprime to n
LogOrder(n, b) == Min({k \in 1..n : ModPow(b, k, n) = 1 % n})

\* C14: for b coprime to n and a in the subgroup generated by b,
\* discrete_log(n, a, b), with the order omitted or given, returns k with
\* b**k = a (mod n) and 0 <= k < order, and trial multiplication, the giant
\* steps, Pohlig-Hellman and Pollard's rho (when it returns) all return this
\* same k.
C14_SameLogarithm ==
    (/\ call.fn \in {"discrete_log", "discrete_log_trial_mul", "discrete_log_shanks_steps",
                     "discrete_log_pohlig_hellman", "discrete_log_pollard_rho"}
     /\ Gcd(log.b, log.n) = 1
     /\ Logs(log.n, log.a, log.b) # {}) =>
        /\ call.fn # "discrete_log_pollard_rho" => ret.kind = "int"
        /\ ret.kind = "int" =>
              /\ ret.val = Min(Logs(log.n, log.a, log.b))
              /\ ret.val < LogOrder(log.n, log.b)

\* C15: when no k with b**k = a (mod n) exists, discrete_log ends in a raised
\* ValueError whichever algorithm it takes (and so does Pollard's rho once
\* its attempts are used up); a value that is returned is a logarithm.
C15_NoLogarithmRaises ==
    (call.fn \in {"discrete_log", "discrete_log_pollard_rho"}) =>
        /\ ret.kind = "int" => ModPow(log.b, ret.val, log.n) = log.a % log.n
        /\ (/\ Logs(log.n, log.a, log.b) = {}
            /\ log.outcome \in {"done", "found", "raised"}) => ret = RValueError

\* a prime order of at least 1000 (giant steps run to their end), a failing
\* sub-problem of Pohlig-Hellman (composite order of at least 1000), and
\* Pollard's rho out of attempts after a candidate failed its check
C15_Witness ==
    /\ ret = RValueError
    /\ Logs(log.n, log.a, log.b) = {}
    /\ \/ call.fn = "discrete_log" /\ log.order >= 1000 /\ ~IsPrime(log.order)
       \/ call.fn = "discrete_log_pollard_rho" /\ log.i = log.retries /\ log.i >= 2

\* C16: _discrete_log_pollard_rho makes at most retries attempts of at most
\* order steps each; an attempt whose collision has a non-invertible exponent
\* difference, or whose candidate fails the check, only fails (nothing is
\* returned or raised, the next attempt follows); ValueError is raised only
\* after the last attempt has failed; a returned value e has b**e = a (mod n).
C16_RhoRetries ==
    (call.fn = "discrete_log_pollard_rho") =>
        /\ log.i <= log.retries
        /\ log.steps <= log.order
        /\ log.outcome \in {"not invertible", "check failed", "no collision"} => ret = RNone
        /\ ret = RValueError => log.i = log.retries /\ log.outcome = "raised"
        /\ ret.kind = "int" => ModPow(log.b, ret.val, log.n) = log.a % log.n

\* the solutions in [0, p) of a*x**2 + b*x + c = 0 (mod p)
QuadSolutions(a, b, c, p) == {x \in 0..(p - 1) : (a * x * x + b * x + c) % p = 0}

\* C17: quadratic_congruence(a, b, c, p) with p >= 1 returns the solutions
\* in [0, p) of a*x**2 + b*x + c = 0 (mod p), each once, in ascending order,
\* on the linear, the p = 2, the prime and the composite path
C17_QuadraticAscendingExact ==
    call.fn = "quadratic_congruence" =>
        /\ ret.kind = "list"
        /\ Ascending(ret.list)
        /\ Range(ret.list) = QuadSolutions(call.a, call.b, call.c, call.p)

\* the coefficients reduced modulo m, as polynomial_congruence looks at them
Reduced(coeffs, m) == [i \in DOMAIN coeffs |-> coeffs[i] % m]

\* the lists of x**n - a: leading coefficient 1, nothing between the first
\* and the last coefficient
MonicBinomial(coefficients) ==
    /\ coefficients[1] = 1
    /\ \A i \in DOMAIN coefficients : (1 < i /\ i < Len(coefficients)) => coefficients[i] = 0

\* the value at x of the polynomial with these coefficients, highest degree first
PolyValue(coefficients, x) ==
    SeqSum([i \in DOMAIN coefficients |->
               coefficients[i] * Pow(x, Len(coefficients) - i)])

\* the solutions in [0, m) of the polynomial congruence
PolySolutions(coefficients, m) == {x \in 0..(m - 1) : PolyValue(coefficients, x) % m = 0}

\* C18: polynomial_congruence looks at the coefficients reduced modulo m;
\* 3 coefficients go to quadratic_congruence, 2 go to quadratic_congruence
\* with a = 0, a list of x**n - a goes to nthroot_mod(-c0, n, m, True); the
\* test of the code is true exactly for the lists of x**n - a; on each of
\* the three paths the result lists every solution in [0, m) once
C18_PolynomialDispatch ==
    call.fn = "polynomial_congruence" =>
        LET coefficients == Reduced(call.coefficients, call.m)
            rank == Len(coefficients)
        IN  /\ NthRootPattern(coefficients) <=> MonicBinomial(coefficients)
            /\ rank = 3 =>
                   ret.list = quadratic_congruence(coefficients[1], coefficients[2],
                                                   coefficients[3], call.m, call.rot, call.rnd)
            /\ rank = 2 =>
                   ret.list = quadratic_congruence(0, coefficients[1], coefficients[2],
                                                   call.m, call.rot, call.rnd)
            /\ (rank > 3 /\ MonicBinomial(coefficients)) =>
                   ret.list = nthroot_mod(-coefficients[rank], rank - 1, call.m, TRUE,
                                          call.rnd).list
            /\ (rank \in {2, 3} \/ MonicBinomial(coefficients)) =>
                   /\ ret.kind = "list"
                   /\ Range(ret.list) = PolySolutions(call.coefficients, call.m)
                   /\ Len(ret.list) = Cardinality(Range(ret.list))

\* a cubic x**3 - a, its last coefficient given unreduced, with more than
\* one solution was solved by nthroot_mod
C18_Witness ==
    /\ call.fn = "polynomial_congruence"
    /\ Len(call.coefficients) = 4
    /\ MonicBinomial(Reduced(call.coefficients, call.m))
    /\ call.coefficients[4] # Reduced(call.coefficients, call.m)[4]
    /\ Len(ret.list) >= 2

RECURSIVE Binomial(_, _)
\* the exact binomial coefficient C(n, m), 0 <= m <= n
Binomial(n, m) == IF m = 0 THEN 1 ELSE (Binomial(n - 1, m - 1) * n) \div m

\* C19: binomial_mod(n, m, k) with k >= 1 is C(n, m) mod k, a value in
\* [0, k), and 0 when m < 0 or m > n; k < 1 raises ValueError;
\* _binomial_mod_prime_power(n, m, p, q) is C(n, m) mod p**q and its carry
\* count e0 is the p-adic valuation of C(n, m)
C19_BinomialMod ==
    /\ call.fn = "binomial_mod" =>
           IF call.k < 1 THEN ret = RValueError
           ELSE /\ ret.kind = "int"
                /\ ret.val \in 0..(call.k - 1)
                /\ ret.val = IF call.m < 0 \/ call.m > call.n THEN 0
                             ELSE Binomial(call.n, call.m) % call.k
    /\ call.fn = "_binomial_mod_prime_power" =>
           /\ ret = RInt(Binomial(call.n, call.m) % Pow(call.p, call.q))
           /\ call.e0 = Multiplicity(call.p, Binomial(call.n, call.m))

\* a coefficient larger than k was reduced modulo a k with two prime
\* divisors, one of them squared, and one of them dividing the coefficient
C19_Witness ==
    /\ call.fn = "binomial_mod"
    /\ call.k >= 1
    /\ 0 < call.m /\ call.m < call.n
    /\ Cardinality(PrimeDivisors(call.k)) >= 2
    /\ \E p \in PrimeDivisors(call.k) : call.k % (p * p) = 0
    /\ \E p \in PrimeDivisors(call.k) : Binomial(call.n, call.m) % p = 0
    /\ Binomial(call.n, call.m) > call.k
    /\ ret.kind = "int" /\ ret.val > 0

\* C20: n_order(a, n) and is_primitive_root(a, n) raise ValueError when
\* n <= 1 or gcd(a mod n, n) # 1, primitive_root(n) raises ValueError when
\* n < 2, in each case before any factorization or exponentiation; the one
\* result given without the gcd test is n_order returning 1 for a = 1
\* (mod n), where gcd(a, n) = 1
C20_DomainErrors ==
    /\ (call.fn = "n_order"
            /\ (call.n <= 1 \/ Gcd(call.a % call.n, call.n) # 1)) =>
           ret = RValueError /\ ~call.work
    /\ (call.fn = "n_order" /\ call.n > 1 /\ call.a % call.n = 1) =>
           ret = RInt(1) /\ Gcd(call.a, call.n) = 1 /\ ~call.work
    /\ (call.fn = "is_primitive_root"
            /\ (call.p <= 1 \/ Gcd(call.a % call.p, call.p) # 1)) =>
           ret = RValueError /\ ~call.work
    /\ (call.fn = "primitive_root" /\ call.p < 2) => ret = RValueError /\ ~call.work

\* n_order raised for an a that is neither 0 nor coprime to n
C20_Witness ==
    /\ call.fn = "n_order"
    /\ call.n > 1
    /\ call.a % call.n > 1
    /\ Gcd(call.a % call.n, call.n) # 1
    /\ ret = RValueError
    /\ ~call.work

\* C21: an entry point given a modulus that is zero or negative, or a
\* negative exponent, raises ValueError: it does not return a value and
\* does not fail with another error (here the residue tests, the entry
\* points that are called with such arguments)
C21_InvalidRejected ==
    (call.fn \in {"is_quad_residue", "is_nthpow_residue"} /\ (call.p <= 0 \/ call.n < 0)) =>
        ret = RValueError

\* whether the order <<hi, lo>> is below the bound <<hi, lo>>
Below(order, bound) == order[1] < bound[1] \/ (order[1] = bound[1] /\ order[2] < bound[2])

\* the function the claim gives for an order and a prime_order
Selected(order, prime_order) ==
    IF Below(order, <<0, 1000>>) THEN "_discrete_log_trial_mul"
    ELSE IF prime_order /\ Below(order, <<Limb, 0>>) THEN "_discrete_log_shanks_steps"
    ELSE IF prime_order THEN "_discrete_log_pollard_rho"
    ELSE "_discrete_log_pohlig_hellman"

\* C22: discrete_log hands the call to exactly one function: trial
\* multiplication for order < 1000, prime or not; otherwise the giant steps
\* for a prime order below 10**12, Pollard's rho for a prime order from
\* 10**12 on, Pohlig-Hellman for the rest; an order that is not passed is
\* n_order(b, n) and prime_order is isprime(order), taken before
C22_OneAlgorithm ==
    call.fn = "discrete_log" =>
        /\ \A i \in DOMAIN call.calls :
              IF call.calls[i].fn = "discrete_log"
              THEN /\ i < Len(call.calls)
                   /\ call.calls[i + 1] =
                          [call.calls[i] EXCEPT
                              !.fn = Selected(call.calls[i].order, call.calls[i].prime_order)]
              ELSE i > 1 /\ call.calls[i - 1].fn = "discrete_log"
        /\ (log.outcome = "done" /\ ~log.given) =>
              IF Gcd(log.b, log.n) # 1 THEN call.calls = <<>> /\ ret = RValueError
              ELSE /\ call.calls # <<>>
                   /\ call.calls[1].order = Limbs(LogOrder(log.n, log.b))
                   /\ call.calls[1].prime_order = IsPrime(LogOrder(log.n, log.b))

\* an order of 10**12 passed with prime_order = True was handed to Pollard's rho
C22_Witness ==
    /\ call.fn = "discrete_log"
    /\ Len(call.calls) = 2
    /\ call.calls[1].order = <<Limb, 0>>
    /\ call.calls[1].prime_order
    /\ call.calls[2].fn = "_discrete_log_pollard_rho"

\* the sum of the exponents in the factorization of order
SumExponents(order) ==
    Local(Factorint(order), LAMBDA f : SeqSum([i \in DOMAIN f |-> f[i][2]]))

\* a call in which _discrete_log_pohlig_hellman ran: called itself with the
\* order of b, or entered from discrete_log
PohligRan ==
    /\ log.outcome = "done"
    /\ log.order > 0
    /\ \/ call.fn = "discrete_log_pohlig_hellman"
       \/ /\ call.fn = "discrete_log"
          /\ Len(call.calls) >= 2
          /\ call.calls[2].fn = "_discrete_log_pohlig_hellman"

\* the calls of discrete_log made from inside _discrete_log_pohlig_hellman
NestedCalls ==
    {i \in DOMAIN call.calls :
        /\ call.calls[i].fn = "discrete_log"
        /\ call.fn = "discrete_log" => i > 1}

\* every nested call passes a prime with prime_order = True and is not
\* handed to Pohlig-Hellman again; discrete_log is nested at most twice
NestedCallsPrime ==
    /\ \A i \in DOMAIN call.calls : call.calls[i].depth <= 2
    /\ \A i \in NestedCalls :
          /\ call.calls[i].prime_order
          /\ call.calls[i].order[1] = 0 /\ IsPrime(call.calls[i].order[2])
          /\ call.calls[i + 1].fn # "_discrete_log_pohlig_hellman"
          /\ call.calls[i + 1].depth = call.calls[i].depth

\* C23 as stated: bounded nesting, and the nested calls of one Pohlig-Hellman
\* invocation are as many as the sum of the exponents in the factorization
\* of order
C23_NestedCallsEqualExponents ==
    PohligRan =>
        /\ NestedCallsPrime
        /\ Cardinality(NestedCalls) = SumExponents(log.order)

\* C23: every nested call of _discrete_log_pohlig_hellman passes a prime
\* with prime_order = True and is never handed to Pohlig-Hellman again
\* (discrete_log is nested at most twice); the nested calls of one
\* invocation are at most as many as the sum of the exponents in the
\* factorization of order, and exactly as many when the invocation returns
C23_NestedCallsBounded ==
    PohligRan =>
        /\ NestedCallsPrime
        /\ Cardinality(NestedCalls) <= SumExponents(log.order)
        /\ ret.kind = "int" => Cardinality(NestedCalls) = SumExponents(log.order)
        /\ ret.kind # "int" => ret = RValueError /\ Cardinality(NestedCalls) >= 1

\* Pohlig-Hellman entered from discrete_log with order 1008 = 2**4 * 3**2 * 7
\* made its seven nested calls and returned
C23_Witness ==
    /\ PohligRan
    /\ call.fn = "discrete_log"
    /\ log.order = 1008
    /\ Cardinality(NestedCalls) = 7
    /\ ret.kind = "int"


\* the call of _sqrt_mod_prime_power in progress has p = 2
PowerOfTwo == call.fn = "_sqrt_mod_prime_power" /\ call.p = 2

\* C24: _sqrt_mod_prime_power with p = 2 and odd a returns None exactly when
\* a mod 2**k is not 1 modulo 8; for k <= 3 it returns all odd residues
\* below 2**k; for k > 3 the lifting loop has r**2 = a (mod 2**nx) at the
\* start of the pass nx and ends with r**2 = a (mod 2**k), r < 2**(k - 1),
\* and the list returned has four distinct values, exactly the solutions
C24_PowerOfTwoRoots ==
    PowerOfTwo =>
        /\ call.pc = "done" => (ret = RNone <=> (call.a0 % call.pk) % 8 # 1)
        /\ (call.pc = "done" /\ ret # RNone /\ call.k <= 3) =>
              Range(ret.list) = {x \in 0..(call.pk - 1) : x % 2 = 1}
        /\ call.pc = "lift" =>
              /\ call.nx \in 3..call.k
              /\ (call.r * call.r - call.a0) % Pow(2, call.nx) = 0
              /\ call.r < Pow(2, call.nx - 1)
        /\ (call.pc = "done" /\ ret # RNone /\ call.k > 3) =>
              /\ Len(ret.list) = 4
              /\ Cardinality(Range(ret.list)) = 4
              /\ (call.r * call.r - call.a0) % call.pk = 0
              /\ call.r < Pow(2, call.k - 1)
              /\ Range(ret.list) = SqrtRoots(call.a0, call.pk)

\* modulo 2**6 = 64 the loop has added bits to r and the four roots are
\* returned
C24_Witness ==
    /\ PowerOfTwo /\ call.k = 6 /\ call.pc = "done"
    /\ call.r > 8
    /\ ret.kind = "list" /\ Len(ret.list) = 4


\* the call of _sqrt_mod_prime_power in progress has an odd prime p
PowerOfOdd == call.fn = "_sqrt_mod_prime_power" /\ call.p # 2

\* the number of passes of the Newton loop made so far
RoundsDone == (IF call.k > 1 THEN BitLength(call.k) - 1 ELSE 0) - call.rounds

\* C25: for an odd prime p, a coprime to p with Jacobi symbol 1 and k >= 1,
\* res**2 = a modulo px = p**(2**j) after each pass j of the Newton loop,
\* res**2 = a (mod p**k) after the final step, and the ascending pair
\* [min(res, p**k - res), max(res, p**k - res)] returned is exactly the
\* solution set
C25_NewtonLifting ==
    (PowerOfOdd /\ Jacobi(call.a, call.p) = 1) =>
        /\ call.pc = "base" =>
              /\ call.px = Pow(call.p, Pow(2, RoundsDone))
              /\ (call.res * call.res - call.a0) % call.px = 0
        /\ call.pc = "done" =>
              /\ (call.res * call.res - call.a0) % call.pk = 0
              /\ ret = RList(<<Min({call.res, call.pk - call.res}),
                               call.pk - Min({call.res, call.pk - call.res})>>)
              /\ Ascending(ret.list)
              /\ Range(ret.list) = SqrtRoots(call.a0, call.pk)

\* modulo 3**3 one pass of the loop and the final step are made
C25_Witness ==
    /\ PowerOfOdd /\ call.p = 3 /\ call.k = 3 /\ call.pc = "done"
    /\ ret.kind = "list" /\ Len(ret.list) = 2 /\ ret.list[1] > 9


\* the root modulo p has just been computed
AtBaseRoot == PowerOfOdd /\ call.pc = "base" /\ RoundsDone = 0

\* C26: the root modulo p satisfies res**2 = a (mod p) on each branch: it is
\* a**((p + 1)/4) for p = 3 (mod 4); a**((p + 3)/8), times 2**((p - 1)/4)
\* when needed, for p = 5 (mod 8); and the value of Tonelli-Shanks
\* otherwise, whose correction loop ends with A*D**m = 1 (mod p) and m
\* even for every quadratic nonresidue d the search may select
C26_BaseRoot ==
    AtBaseRoot =>
        /\ (call.res * call.res - call.a0) % call.p = 0
        /\ call.p % 4 = 3 =>
              call.res = PowerResidue(call.a, (call.p + 1) \div 4, call.p)
        /\ call.p % 8 = 5 =>
              \/ call.res = PowerResidue(call.a, (call.p + 3) \div 8, call.p)
              \/ call.res = (PowerResidue(call.a, (call.p + 3) \div 8, call.p)
                             * PowerResidue(2, (call.p - 1) \div 4, call.p)) % call.p
        /\ call.p % 8 = 1 =>
              /\ Jacobi(call.d, call.p) = -1
              /\ call.m % 2 = 0
              /\ (PowerResidue(call.a, call.p \div Pow(2, Trailing(call.p - 1)), call.p)
                  * PowerResidue(PowerResidue(call.d, call.p \div Pow(2, Trailing(call.p - 1)),
                                              call.p), call.m, call.p)) % call.p = 1

\* modulo 41 the search ended with the nonresidue 29 and the correction
\* loop with an exponent that is not 0
C26_Witness ==
    /\ AtBaseRoot /\ call.p = 41 /\ call.d = 29 /\ call.m > 0
    /\ (call.res * call.res - call.a0) % call.p = 0


\* the reduction loop of nthroot_mod has been left
ReduceLeft == call.fn = "nthroot_mod" /\ call.pc = "done"

\* C27 as stated: in nthroot_mod with a prime p, a != 0 (mod p), a an n-th
\* power residue and n not dividing p - 1, the reduction loop ends with
\* pa equal to 1 or 2, never with another exponent
C27_FinalExponentOneOrTwo == ReduceLeft => call.pa \in {1, 2}

\* C27: in nthroot_mod with a prime p, a != 0 (mod p), a an n-th power
\* residue and n not dividing p - 1, the reduction loop ends with pa equal
\* to 1 (the carried value is returned), to 2 (delegated to sqrt_mod), or
\* to a larger proper divisor of n that divides p - 1 (delegated to
\* _nthroot_mod1)
C27_FinalExponent ==
    ReduceLeft =>
        /\ call.pa = 1 => ret = (IF call.flag THEN RList(<<call.a>>) ELSE RInt(call.a))
        /\ call.pa = 2 => ret = sqrt_mod(call.a, call.p, call.flag, call.rnd)
        /\ call.pa \notin {1, 2} =>
              /\ call.pa > 2 /\ call.pa < call.n
              /\ call.n % call.pa = 0 /\ (call.p - 1) % call.pa = 0
              /\ ret = nthroot_mod1(call.a, call.pa, call.p, call.flag)

\* nthroot_mod(3, 8, 13): the loop ends with pa = 4 and the four roots of
\* x**4 = 3 (mod 13) come from _nthroot_mod1
C27_Witness ==
    /\ ReduceLeft /\ call.p = 13 /\ call.n = 8 /\ call.a0 = 3 /\ call.flag
    /\ call.pa = 4 /\ ret.kind = "list" /\ Len(ret.list) = 4


\* the reduction loop of nthroot_mod is at its test "while pb"
AtWhile == call.fn = "nthroot_mod" /\ call.pc = "while"

\* the roots of the congruence nthroot_mod was called with
OriginalRoots == NthRoots(call.a0, call.n, call.p)

\* at the test of the loop: every root x of the original congruence has
\* x**pa = a and x**pb = b (mod p), and b is invertible modulo p; when
\* pb = 0, pa = gcd(n, p - 1), pa divides p - 1 and x**pa = a (mod p) has
\* exactly the roots of the original congruence
ReduceInvariant ==
    AtWhile =>
        /\ \A x \in OriginalRoots :
              /\ PowerResidue(x, call.pa, call.p) = call.a % call.p
              /\ PowerResidue(x, call.pb, call.p) = call.b % call.p
        /\ Gcd(call.b % call.p, call.p) = 1
        /\ call.pb = 0 =>
              /\ call.pa = Gcd(call.n, call.p - 1)
              /\ (call.p - 1) % call.pa = 0
              /\ NthRoots(call.a, call.pa, call.p) = OriginalRoots

\* a pass of the loop makes pb smaller and keeps it from going below 0
ReduceDecreases == ReducePass => (call'.pb < call.pb /\ call'.pb >= 0)

\* C28: the reduction loop of nthroot_mod terminates (pb decreases in every
\* pass and is never negative) and keeps the invariant that every root x of
\* x**n = a (mod p) has x**pa = a and x**pb = b (mod p) with b invertible;
\* on exit pb = 0, pa = gcd(n, p - 1) divides p - 1 and the roots of
\* x**pa = a (mod p) are exactly the roots of the original congruence
C28_ReductionInvariant == [](ReduceInvariant) /\ [][ReduceDecreases]_vars

\* nthroot_mod(a, 8, 13) after two passes or more, at the exit of the loop
\* with pa = 4
C28_Witness ==
    /\ AtWhile /\ call.p = 13 /\ call.n = 8 /\ call.pb = 0 /\ call.pa = 4
    /\ Cardinality(OriginalRoots) = 4


\* a generator made by _product is there
ProductCreated == call.fn = "_product"

\* L(k+1) * ... * Lm: how many combinations go by between two changes of
\* the position k
RECURSIVE Stride(_, _)
Stride(iters, k) == IF k >= Len(iters) THEN 1 ELSE Len(iters[k + 1]) * Stride(iters, k + 1)

\* L1 * ... * Lm
Combinations(iters) == IF iters = <<>> THEN 1 ELSE Len(iters[1]) * Stride(iters, 1)

\* the combination number n (from 1) in odometer order, the last position
\* varying fastest
OdometerAt(iters, n) ==
    [k \in DOMAIN iters |-> iters[k][(((n - 1) \div Stride(iters, k)) % Len(iters[k])) + 1]]

\* all the combinations of one element of each iterable
CartesianSet(iters) ==
    {c \in [DOMAIN iters -> UNION {Range(iters[k]) : k \in DOMAIN iters}] :
        \A k \in DOMAIN iters : c[k] \in Range(iters[k])}

\* what has been yielded so far is the beginning of the odometer order, every
\* value of an iterable has been taken from it at most once, and a generator
\* that has ended has yielded each combination exactly once, L1 * ... * Lm in
\* all, one empty combination when there is no iterable, and has taken every
\* value of every iterable
ProductYields ==
    ProductCreated =>
        /\ Len(call.yields) <= Combinations(call.iters)
        /\ \A n \in DOMAIN call.yields : call.yields[n] = OdometerAt(call.iters, n)
        /\ \A k \in DOMAIN call.iters :
              call.inf_iters[k].saved \o call.inf_iters[k].fresh = call.iters[k]
        /\ call.pc = "ended" =>
              /\ Len(call.yields) = Combinations(call.iters)
              /\ \A c \in CartesianSet(call.iters) :
                    Cardinality({n \in DOMAIN call.yields : call.yields[n] = c}) = 1
              /\ call.iters = <<>> => call.yields = << <<>> >>
              /\ \A k \in DOMAIN call.iters : call.inf_iters[k].fresh = <<>>

\* the generator has ended
ProductEnded == ProductCreated /\ call.pc = "ended"

\* C29: _product yields for non-empty iterables of lengths L1..Lm exactly
\* L1 * ... * Lm combinations, each combination of one element of each
\* iterable exactly once, in odometer order with the last position varying
\* fastest, and then ends; with no iterables it yields one empty
\* combination; each iterable is gone through once
C29_ProductGenerator == [](ProductYields) /\ (ProductCreated ~> ProductEnded)

\* three iterables of lengths 2, 3 and 2: the twelve combinations have been
\* yielded and the generator has ended
C29_Witness ==
    /\ ProductEnded
    /\ Len(call.iters) = 3 /\ Len(call.iters[1]) = 2 /\ Len(call.iters[2]) = 3
    /\ Len(call.iters[3]) = 2
    /\ Len(call.yields) = 12 /\ call.yields[12] = <<12, 23, 32>>


\* d is a quadratic nonresidue modulo p
IsNonResidue(d, p) == SqrtRoots(d, p) = {}

\* what a call has returned or yielded is what it returns or yields when the
\* random search ends with the smallest nonresidue
SameForEveryDraw ==
    /\ call.fn = "sqrt_mod" => ret = sqrt_mod(call.a, call.p, call.flag, 0)
    /\ call.fn = "sqrt_mod_iter" => it_out \o it_rest = sqrt_mod_iter(call.a, call.p, 0)
    /\ (call.fn = "_sqrt_mod_prime_power" /\ call.pc = "done" /\ ret # RNone) =>
          ret = RList(sqrt_mod_prime_power(call.a0, call.p, call.k, 0))

\* the search is made for an odd prime for which a nonresidue is there to be
\* drawn
SearchCanEnd ==
    (call.fn = "_sqrt_mod_prime_power" /\ call.pc = "search") =>
        /\ IsPrime(call.p) /\ call.p % 2 = 1
        /\ \E d \in 2..(call.p - 1) : IsNonResidue(d, call.p)

\* a pass of the search ends it exactly when the value drawn is a nonresidue
SearchEnds ==
    (call.fn = "_sqrt_mod_prime_power" /\ call.pc = "search") =>
        /\ call'.d \in 2..(call.p - 1)
        /\ call'.pc = (IF IsNonResidue(call'.d, call.p) THEN "base" ELSE "search")

\* C30: what sqrt_mod returns and what sqrt_mod_iter yields does not depend
\* on the draws of the random search of Tonelli-Shanks: whatever nonresidue
\* the search ends with and whatever candidates it rejects before, the
\* result is the same; the search ends as soon as a nonresidue in
\* [2, p - 1] is drawn, and there is one for every odd prime it is made for
C30_DrawIndependence == [](SameForEveryDraw /\ SearchCanEnd) /\ [][SearchEnds]_vars

\* modulo 41 the search has rejected nothing or something and ended with a
\* nonresidue for which Tonelli-Shanks gives the other root than for the
\* smallest nonresidue, and the same pair is returned
C30_Witness ==
    /\ call.fn = "_sqrt_mod_prime_power" /\ call.pc = "done" /\ call.p = 41
    /\ ret.kind = "list" /\ Len(ret.list) = 2
    /\ sqrt_mod_tonelli_shanks(call.a, call.p, call.d)
          # sqrt_mod_tonelli_shanks(call.a, call.p, TonelliDraw(call.p, 0))

====
